---- MODULE Spec2Model ----
(***************************************************************************)
(* Model of procmem: the ptrace based memory lock (procmem_access) and the  *)
(* stream scanner (procmem_scan).                                          *)
(***************************************************************************)
EXTENDS Integers, Sequences, FiniteSets, TLC

VARIABLES
    \* ---- PtraceLock (procmem_access/src/platform/ptrace/lock.rs)
    lock_counter,     \* PtraceLock.lock_counter
    target_stopped,   \* whether the target process is frozen (ptrace-stopped)
    lk_state,         \* "alive" | "dropped" | "panicked" | "none"
    lk_op,            \* the last operation called on the lock
    lk_res,           \* what the last operation returned
    lk_calls,         \* platform operations issued by the last operation
    lk_pre,           \* lock_counter before the last operation
    lk_pre_stopped,   \* target_stopped before the last operation
    lk_unmatched,     \* lock()/lock_exlusive() calls not yet followed by their unlock()
    lk_recursive,     \* successful lock() calls not yet undone by a successful unlock()
    lk_platfail,      \* some platform operation has failed since construction
    lk_failed,        \* a platform operation failed inside the last operation
    \* ---- StreamScanner<ValuePredicate> (procmem_scan)
    sc_pat,           \* ValuePredicate.value.as_bytes()
    sc_aligned,       \* ValuePredicate.aligned
    sc_align,         \* T::align_of()
    sc_data,          \* the bytes of the scanned memory
    sc_base,          \* the offset of the first byte of sc_data
    sc_cands,         \* StreamScanner.candidates of each scanner
    sc_found,         \* matches handed to the callback by the partial scans, in order
    sc_once,          \* matches handed to the callback by the last scan_once
    sc_scanned,       \* indices of sc_data already given to scan_partial
    sc_status,        \* "ok" | "panic": whether a scanner call has panicked
    sc_last,          \* the last scanner operation
    sc_asc,           \* all partial scans so far were on scanner 1, in ascending order
    sc_fresh,         \* every scanner was empty when the partial scans began
    sc_used,          \* the scanners that have run a partial scan
    sc_pre,           \* the candidates of the scanner before its last operation
    sc_emit,          \* matches reported by the last operation, in order
    sc_starts,        \* on_start invocations of the last scan_partial
    sc_chunk,         \* the indices <<lo, hi>> given to the last scan_partial
    sc_stop,          \* the callback returns false at its sc_stop-th invocation in
                      \* a call; 0: it always returns true
    \* ---- ScannerCandidate::try_merge_mut called on its own
    mg_self,          \* self before the call
    mg_other,         \* other
    mg_res,           \* the call's outcome: ok, self after the call, the Err value
    mg_called,        \* whether the call has been made
    \* ---- a sorted run of candidates being merged pair by pair
    fd_init,          \* the sorted candidates to merge
    fd_seq,           \* what is left of them after the merges made so far
    \* ---- MemoryPage::try_merge_mut called on its own
    pg_self,          \* self before the call
    pg_other,         \* other
    pg_res,           \* the call's outcome: ok, self after the call, the Err value
    pg_called,        \* whether the call has been made
    \* ---- MemoryPage::merge_sorted over a run of pages
    pr_init,          \* the pages given to the first pass, sorted by start address
    pr_seq,           \* the pages after the passes made so far
    pr_first,         \* the pages after the first pass
    pr_passes,        \* number of merge_sorted passes made
    \* ---- ValuePredicate::try_start_partial_candidates called on its own
    pc_offset,        \* the offset given
    pc_byte,          \* the byte given
    pc_res,           \* the candidates returned
    pc_called,        \* whether the call has been made
    \* ---- MemoryAccess::read / write
    ac_impl,          \* "procfs" | "mach": the implementation
    ac_op,            \* "new" | "read" | "write": the last call
    ac_len,           \* length of the buffer (of the data) of the last call
    ac_done,          \* bytes the last call transferred
    ac_res,           \* "Ok" | "Err": what the last call returned
    \* ---- OffsetType
    of_val,           \* the offset held, <<>> when none was constructed
    of_op,            \* "none" | "new" | "saturating_add": the last operation
    of_prev,          \* the offset before the last saturating_add
    of_rhs,           \* the argument of the last operation
    \* ---- the front ends: the REPL App, the Python object, string_finder
    fe_app,           \* "repl" | "python" | "string_finder"
    fe_user_locked,   \* user_locked of the App and of the Python object
    fe_current,       \* current_matches of the App
    fe_pages,         \* the pages handed to the scans: [start, data] each
    fe_op,            \* the last call made on the front end
    fe_res,           \* "Ok" | "Err" | "Panic": what the last call returned
    fe_why,           \* the exit taken by the last call
    fe_failed,        \* the pages whose read failed during the last scan
    fe_scanned,       \* the pages the last scan read and scanned
    fe_out,           \* the offsets the last scan reported
    fe_entry,         \* the lock counter when the last call was entered
    fe_prev,          \* current_matches when the last call was entered
    \* ---- MemoryMap: the lookup of the page containing an offset
    mp_impl,          \* "default" (the trait's containing_page) | "procfs"
    mp_pages,         \* the pages of the map, in order: [start, end] each
    mp_offset,        \* the offset last looked up
    mp_res,           \* the index of the page returned, 0 for None
    mp_called,        \* a lookup was made
    \* ---- ProcfsMemoryMap::parse_map_line
    ml_line,          \* the line last parsed: its fields between single spaces
    ml_res,           \* what the parse returned: [ok, page]
    ml_called,        \* a line was parsed
    \* ---- ProcessContext with the attach counter (src/process.rs)
    cx_counter,       \* ProcessContext.ptrace_attach
    cx_attached,      \* ptrace is attached to the target
    cx_pos,           \* the position of mem_rw
    cx_op,            \* the last operation called
    cx_res,           \* what it returned
    cx_raw,           \* the raw ptrace operations it made
    cx_pre,           \* the counter before it
    cx_pre_attached,  \* whether ptrace was attached before it
    \* ---- AccFilter: the in-place pass and the iterator over the same items
    af_items,         \* the items of the vector before the pass
    af_funs,          \* what the closure does at each of its calls
    af_buf,           \* the buffer of the vector, the reserved slot included
    af_read,          \* read_index: the items moved out so far
    af_write,         \* write_index
    af_acc,           \* acc: <<>> is None, <<v>> is Some(v)
    af_len,           \* the length of the vector
    af_pos,           \* where acc_filter_vec_mut is: "loop", "tail" or "done"
    lz_i,             \* the items the inner iterator has yielded
    lz_state,         \* AccFilter.state
    lz_out,           \* the items next() has yielded
    lz_done           \* next() has returned None

lockVars == <<lock_counter, target_stopped, lk_state, lk_op, lk_res, lk_calls,
              lk_pre, lk_pre_stopped, lk_unmatched, lk_recursive, lk_platfail,
              lk_failed>>

scanVars == <<sc_pat, sc_aligned, sc_align, sc_data, sc_base, sc_cands, sc_found,
              sc_once, sc_scanned, sc_status, sc_last, sc_asc, sc_fresh, sc_used,
              sc_pre, sc_emit, sc_starts, sc_chunk, sc_stop>>

mergeVars == <<mg_self, mg_other, mg_res, mg_called>>

foldVars == <<fd_init, fd_seq>>

pageVars == <<pg_self, pg_other, pg_res, pg_called>>

pageRunVars == <<pr_init, pr_seq, pr_first, pr_passes>>

predVars == <<pc_offset, pc_byte, pc_res, pc_called>>

accessVars == <<ac_impl, ac_op, ac_len, ac_done, ac_res>>

offsetVars == <<of_val, of_op, of_prev, of_rhs>>

frontVars == <<fe_app, fe_user_locked, fe_current, fe_pages, fe_op, fe_res, fe_why,
               fe_failed, fe_scanned, fe_out, fe_entry, fe_prev>>

mapVars == <<mp_impl, mp_pages, mp_offset, mp_res, mp_called>>

lineVars == <<ml_line, ml_res, ml_called>>

ctxVars == <<cx_counter, cx_attached, cx_pos, cx_op, cx_res, cx_raw, cx_pre,
             cx_pre_attached>>

accVars == <<af_items, af_funs, af_buf, af_read, af_write, af_acc, af_len, af_pos,
             lz_i, lz_state, lz_out, lz_done>>

\* the history of the calls made on the lock itself
lockGhosts == <<lk_state, lk_op, lk_res, lk_calls, lk_pre, lk_pre_stopped,
                lk_unmatched, lk_recursive, lk_platfail, lk_failed>>

vars == <<lockVars, scanVars, mergeVars, foldVars, pageVars, pageRunVars, predVars,
          accessVars, offsetVars, frontVars, mapVars, lineVars, ctxVars, accVars>>

\* what the operations of one part leave alone: the state of the other parts
lockFrame == <<scanVars, mergeVars, foldVars, pageVars, pageRunVars, predVars,
               accessVars, offsetVars, frontVars, mapVars, lineVars, ctxVars, accVars>>

scanFrame == <<lockVars, mergeVars, foldVars, pageVars, pageRunVars, predVars,
               accessVars, offsetVars, frontVars, mapVars, lineVars, ctxVars, accVars>>

mergeFrame == <<lockVars, scanVars, foldVars, pageVars, pageRunVars, predVars,
                accessVars, offsetVars, frontVars, mapVars, lineVars, ctxVars, accVars>>

foldFrame == <<lockVars, scanVars, mergeVars, pageVars, pageRunVars, predVars,
               accessVars, offsetVars, frontVars, mapVars, lineVars, ctxVars, accVars>>

pageFrame == <<lockVars, scanVars, mergeVars, foldVars, pageRunVars, predVars,
               accessVars, offsetVars, frontVars, mapVars, lineVars, ctxVars, accVars>>

pageRunFrame == <<lockVars, scanVars, mergeVars, foldVars, pageVars, predVars,
                  accessVars, offsetVars, frontVars, mapVars, lineVars, ctxVars,
                  accVars>>

predFrame == <<lockVars, scanVars, mergeVars, foldVars, pageVars, pageRunVars,
               accessVars, offsetVars, frontVars, mapVars, lineVars, ctxVars, accVars>>

accessFrame == <<lockVars, scanVars, mergeVars, foldVars, pageVars, pageRunVars,
                 predVars, offsetVars, frontVars, mapVars, lineVars, ctxVars, accVars>>

offsetFrame == <<lockVars, scanVars, mergeVars, foldVars, pageVars, pageRunVars,
                 predVars, accessVars, frontVars, mapVars, lineVars, ctxVars, accVars>>

frontFrame == <<scanVars, mergeVars, foldVars, pageVars, pageRunVars, predVars,
                accessVars, offsetVars, mapVars, lineVars, ctxVars, accVars>>

mapFrame == <<lockVars, scanVars, mergeVars, foldVars, pageVars, pageRunVars, predVars,
              accessVars, offsetVars, frontVars, lineVars, ctxVars, accVars>>

lineFrame == <<lockVars, scanVars, mergeVars, foldVars, pageVars, pageRunVars, predVars,
               accessVars, offsetVars, frontVars, mapVars, ctxVars, accVars>>

ctxFrame == <<lockVars, scanVars, mergeVars, foldVars, pageVars, pageRunVars, predVars,
              accessVars, offsetVars, frontVars, mapVars, lineVars, accVars>>

accFrame == <<lockVars, scanVars, mergeVars, foldVars, pageVars, pageRunVars, predVars,
              accessVars, offsetVars, frontVars, mapVars, lineVars, ctxVars>>

----------------------------------------------------------------------------
\* Bounds

\* width of usize in the model (64 or 32 in the program)
UsizeBits == 3

\* longest pattern, longest scanned memory, largest start offset
MaxPatLen == 3
MaxDataLen == 3
MaxBase == 2
\* longest run of candidates (of pages) given to a merge
MaxRun == 3
\* largest address of a memory page
MaxAddr == 4
\* pages handed to one scan of a front end
MaxPages == 2
\* locks held on the target when a front end is called
MaxHeld == 2
\* the longest vector given to AccFilter
MaxVec == 3

----------------------------------------------------------------------------
\* PtraceLock

usize_MAX == 2^UsizeBits - 1

\* outcomes of the platform calls behind ptrace_stop: PTRACE_INTERRUPT (or kill)
\* fails, or the interrupt is delivered and waitpid fails, or both succeed
StopOutcomes == {"ok", "StopError", "WaitpidError"}
CallOutcomes == {"ok", "fail"}

ptrace_attach(out) == [err |-> out # "ok"]

ptrace_stop(stopped, out) ==
    [err     |-> out # "ok",
     stopped |-> IF out = "StopError" THEN stopped ELSE TRUE]

ptrace_cont(stopped, out) ==
    [err     |-> out # "ok",
     stopped |-> IF out = "ok" THEN FALSE ELSE stopped]

ptrace_detach(stopped, out) ==
    [err     |-> out # "ok",
     stopped |-> IF out = "ok" THEN FALSE ELSE stopped]

\* lock() that interrupts the target again although it is already stopped
lock_restop(c, stopped, out) ==
    LET r == ptrace_stop(stopped, out) IN
    IF c = usize_MAX
    THEN [counter |-> c, stopped |-> stopped, res |-> "AlreadyLocked",
          calls |-> <<>>, failed |-> FALSE]
    ELSE IF r.err
    THEN [counter |-> c, stopped |-> r.stopped, res |-> "PlatformError",
          calls |-> <<"stop">>, failed |-> TRUE]
    ELSE [counter |-> c + 1, stopped |-> r.stopped,
          res |-> IF c = 0 THEN "OkTrue" ELSE "OkFalse",
          calls |-> <<"stop">>, failed |-> FALSE]

\* lock() without the test for the exclusive sentinel: the increment wraps
lock_nosentinel(c, stopped, out) ==
    IF c = 0 THEN
        LET r == ptrace_stop(stopped, out) IN
        IF r.err
        THEN [counter |-> c, stopped |-> r.stopped, res |-> "PlatformError",
              calls |-> <<"stop">>, failed |-> TRUE]
        ELSE [counter |-> 1, stopped |-> r.stopped, res |-> "OkTrue",
              calls |-> <<"stop">>, failed |-> FALSE]
    ELSE [counter |-> (c + 1) % 2^UsizeBits, stopped |-> stopped, res |-> "OkFalse",
          calls |-> <<>>, failed |-> FALSE]

\* MemoryLock::lock
lock(c, stopped, out) ==
    IF c = 0 THEN
        LET r == ptrace_stop(stopped, out) IN
        IF r.err
        THEN [counter |-> c, stopped |-> r.stopped, res |-> "PlatformError",
              calls |-> <<"stop">>, failed |-> TRUE]
        ELSE [counter |-> 1, stopped |-> r.stopped, res |-> "OkTrue",
              calls |-> <<"stop">>, failed |-> FALSE]
    ELSE IF c = usize_MAX
    THEN [counter |-> c, stopped |-> stopped, res |-> "AlreadyLocked",
          calls |-> <<>>, failed |-> FALSE]
    ELSE [counter |-> c + 1, stopped |-> stopped, res |-> "OkFalse",
          calls |-> <<>>, failed |-> FALSE]

\* lock_exlusive() that does not look at the counter before taking the lock
lock_exlusive_unchecked(c, stopped, out) ==
    LET r == lock(c, stopped, out) IN
    IF r.res \in {"PlatformError", "AlreadyLocked"}
    THEN r
    ELSE [r EXCEPT !.counter = usize_MAX, !.res = "Ok"]

\* MemoryLock::lock_exlusive
lock_exlusive(c, stopped, out) ==
    IF c = 0 THEN
        LET r == lock(c, stopped, out) IN
        IF r.res = "PlatformError"
        THEN r
        ELSE [r EXCEPT !.counter = usize_MAX, !.res = "Ok"]
    ELSE [counter |-> c, stopped |-> stopped, res |-> "AlreadyLocked",
          calls |-> <<>>, failed |-> FALSE]

\* unlock() that forgets to continue the target when the counter reaches zero
unlock_nocont(c, stopped, out) ==
    IF c = 0
    THEN [counter |-> c, stopped |-> stopped, res |-> "NotLocked",
          calls |-> <<>>, failed |-> FALSE]
    ELSE IF c = 1 \/ c = usize_MAX
    THEN [counter |-> 0, stopped |-> stopped, res |-> "OkTrue",
          calls |-> <<>>, failed |-> FALSE]
    ELSE [counter |-> c - 1, stopped |-> stopped, res |-> "OkFalse",
          calls |-> <<>>, failed |-> FALSE]

\* unlock() that gives the lock up before it continues the target
unlock_eager(c, stopped, out) ==
    IF c = 0
    THEN [counter |-> c, stopped |-> stopped, res |-> "NotLocked",
          calls |-> <<>>, failed |-> FALSE]
    ELSE IF c = 1 \/ c = usize_MAX THEN
        LET r == ptrace_cont(stopped, out) IN
        [counter |-> 0, stopped |-> r.stopped,
         res |-> IF r.err THEN "PlatformError" ELSE "OkTrue",
         calls |-> <<"cont">>, failed |-> r.err]
    ELSE [counter |-> c - 1, stopped |-> stopped, res |-> "OkFalse",
          calls |-> <<>>, failed |-> FALSE]

\* MemoryLock::unlock
unlock(c, stopped, out) ==
    IF c = 0
    THEN [counter |-> c, stopped |-> stopped, res |-> "NotLocked",
          calls |-> <<>>, failed |-> FALSE]
    ELSE IF c = 1 \/ c = usize_MAX THEN
        LET r == ptrace_cont(stopped, out) IN
        IF r.err
        THEN [counter |-> c, stopped |-> r.stopped, res |-> "PlatformError",
              calls |-> <<"cont">>, failed |-> TRUE]
        ELSE [counter |-> 0, stopped |-> r.stopped, res |-> "OkTrue",
              calls |-> <<"cont">>, failed |-> FALSE]
    ELSE [counter |-> c - 1, stopped |-> stopped, res |-> "OkFalse",
          calls |-> <<>>, failed |-> FALSE]

\* Drop::drop: `let _ = self.lock()`, then `self.ptrace_detach().unwrap()`
drop(c, stopped, out, dout) ==
    LET l == lock(c, stopped, out)
        d == ptrace_detach(l.stopped, dout)
    IN  [counter |-> l.counter, stopped |-> d.stopped,
         res     |-> IF d.err THEN "Panic" ELSE "Ok",
         calls   |-> l.calls \o <<"detach">>,
         failed  |-> l.failed \/ d.err]

LockInit ==
    /\ lock_counter = 0
    /\ target_stopped = FALSE
    /\ lk_state = "alive"
    /\ lk_op = "new"
    /\ lk_res = "Ok"
    /\ lk_calls = <<"attach">>
    /\ lk_pre = 0
    /\ lk_pre_stopped = FALSE
    /\ lk_unmatched = 0
    /\ lk_recursive = 0
    /\ lk_platfail = FALSE
    /\ lk_failed = FALSE

\* the effect of one call of the MemoryLock interface on the state
Called(op, r) ==
    /\ lock_counter' = r.counter
    /\ target_stopped' = r.stopped
    /\ lk_op' = op
    /\ lk_res' = r.res
    /\ lk_calls' = r.calls
    /\ lk_pre' = lock_counter
    /\ lk_pre_stopped' = target_stopped
    /\ lk_platfail' = (lk_platfail \/ r.failed)
    /\ lk_failed' = r.failed

Lock ==
    /\ lk_state = "alive"
    /\ lk_unmatched <= usize_MAX + 1
    /\ lk_recursive <= usize_MAX
    /\ \E out \in StopOutcomes :
         LET r == lock(lock_counter, target_stopped, out) IN
         /\ Called("lock", r)
         /\ lk_recursive' = IF r.res \in {"OkTrue", "OkFalse"}
                            THEN lk_recursive + 1 ELSE lk_recursive
    /\ lk_unmatched' = lk_unmatched + 1
    /\ UNCHANGED <<lk_state, lockFrame>>

LockExclusive ==
    /\ lk_state = "alive"
    /\ lk_unmatched <= usize_MAX + 1
    /\ \E out \in StopOutcomes :
         Called("lock_exlusive", lock_exlusive(lock_counter, target_stopped, out))
    /\ lk_unmatched' = lk_unmatched + 1
    /\ UNCHANGED <<lk_state, lk_recursive, lockFrame>>

Unlock ==
    /\ lk_state = "alive"
    /\ \E out \in CallOutcomes :
         LET r == unlock(lock_counter, target_stopped, out) IN
         /\ Called("unlock", r)
         /\ lk_recursive' = IF r.res \in {"OkTrue", "OkFalse"} /\ lk_recursive > 0
                            THEN lk_recursive - 1 ELSE lk_recursive
    /\ lk_unmatched' = IF lk_unmatched > 0 THEN lk_unmatched - 1 ELSE 0
    /\ UNCHANGED <<lk_state, lockFrame>>

Drop ==
    /\ lk_state = "alive"
    /\ \E out \in StopOutcomes, dout \in CallOutcomes :
         LET r == drop(lock_counter, target_stopped, out, dout) IN
         /\ Called("drop", r)
         /\ lk_state' = IF r.res = "Panic" THEN "panicked" ELSE "dropped"
    /\ UNCHANGED <<lk_unmatched, lk_recursive, lockFrame>>

\* PtraceLock::new for the same target, once the previous lock is gone
New ==
    /\ lk_state \in {"dropped", "none"}
    /\ \E out \in CallOutcomes :
         LET a == ptrace_attach(out) IN
         /\ lk_state' = IF a.err THEN "none" ELSE "alive"
         /\ lk_res' = IF a.err THEN "PlatformError" ELSE "Ok"
         /\ lk_platfail' = a.err
         /\ lk_failed' = a.err
    /\ lock_counter' = 0
    /\ lk_op' = "new"
    /\ lk_calls' = <<"attach">>
    /\ lk_pre' = 0
    /\ lk_pre_stopped' = target_stopped
    /\ lk_unmatched' = 0
    /\ lk_recursive' = 0
    /\ UNCHANGED <<target_stopped, lockFrame>>

LockNext == Lock \/ LockExclusive \/ Unlock \/ Drop \/ New

----------------------------------------------------------------------------
\* OffsetType and ScannerCandidate

\* Option::None of a candidate's start_offset; offsets are never 0, and None
\* orders before every Some
None == 0

\* (an addition that wraps around at the width of usize)
wrapping_add(a, b) == (a + b) % 2^UsizeBits

saturating_add(a, b) == IF a + b > usize_MAX THEN usize_MAX ELSE a + b

saturating_sub(a, b) == IF a < b THEN 0 ELSE a - b

Max(a, b) == IF a >= b THEN a ELSE b

Min(a, b) == IF a <= b THEN a ELSE b

normal(offset) ==
    [offset |-> offset, length |-> 1, resolved |-> FALSE, start_offset |-> None]

\* (a partial candidate that records its own offset as the place it was found)
partial_at_offset(offset, length) ==
    [offset |-> offset, length |-> length, resolved |-> FALSE,
     start_offset |-> offset]

partial(offset, length) ==
    [offset |-> offset, length |-> length, resolved |-> FALSE,
     start_offset |-> offset + length - 1]

resolved(offset, length) ==
    [offset |-> offset, length |-> length, resolved |-> TRUE, start_offset |-> None]

\* (a complete partial candidate that is not flagged as resolved)
partial_resolved_unflagged(offset, length) == partial(offset, length)

partial_resolved(offset, length) ==
    [partial(offset, length) EXCEPT !.resolved = TRUE]

is_partial(c) == c.start_offset # None

start_offset(c) == IF c.start_offset = None THEN c.offset ELSE c.start_offset

end_offset(c) == saturating_add(c.offset, c.length)

advance(c) == [c EXCEPT !.length = @ + 1]

\* (a test that refuses ranges that only touch)
can_merge_overlap(a, b) ==
    /\ a.offset = b.offset
    /\ ~(end_offset(a) <= start_offset(b) \/ end_offset(b) <= start_offset(a))

\* ScannerCandidate::try_merge_mut: whether the merge succeeds, and its result
can_merge(a, b) ==
    /\ a.offset = b.offset
    /\ ~(end_offset(a) < start_offset(b) \/ end_offset(b) < start_offset(a))

\* (a merge that leaves self.resolved as it was)
try_merge_mut_keepflag(a, b) ==
    [a EXCEPT !.length = Max(a.length, b.length),
              !.start_offset = Min(a.start_offset, b.start_offset)]

try_merge_mut(a, b) ==
    [a EXCEPT !.length = Max(a.length, b.length),
              !.resolved = a.resolved \/ b.resolved,
              !.start_offset = Min(a.start_offset, b.start_offset)]

\* Ord for ScannerCandidate: a <= b
cmp_le(a, b) ==
    \/ a.offset < b.offset
    \/ /\ a.offset = b.offset
       /\ \/ a.start_offset < b.start_offset
          \/ a.start_offset = b.start_offset /\ a.length <= b.length

RECURSIVE merge_acc(_, _)
\* (a fold that, when a merge fails, emits the refused candidate and keeps
\* the old accumulator)
merge_acc_keepacc(acc, rest) ==
    IF rest = <<>> THEN <<acc>>
    ELSE IF can_merge(acc, Head(rest))
         THEN merge_acc(try_merge_mut(acc, Head(rest)), Tail(rest))
         ELSE <<Head(rest)>> \o merge_acc(acc, Tail(rest))

\* the closure given to AccFilter by merge_sorted, with AccFilter::next
merge_acc(acc, rest) ==
    IF rest = <<>> THEN <<acc>>
    ELSE IF can_merge(acc, Head(rest))
         THEN merge_acc(try_merge_mut(acc, Head(rest)), Tail(rest))
         ELSE <<acc>> \o merge_acc(Head(rest), Tail(rest))

\* ScannerCandidate::merge_sorted
merge_sorted(s) == IF s = <<>> THEN <<>> ELSE merge_acc(Head(s), Tail(s))

\* one call self.try_merge_mut(other): Ok(()) with self merged, or Err(other)
\* with self as it was
try_merge(a, b) ==
    IF can_merge(a, b)
    THEN [ok |-> TRUE, self |-> try_merge_mut(a, b), err |-> <<>>]
    ELSE [ok |-> FALSE, self |-> a, err |-> <<b>>]

\* the candidates that normal, partial, resolved, partial_resolved, advance
\* and try_merge_mut can build
Candidates ==
    {c \in [offset : 1..MaxBase, length : 1..MaxPatLen, resolved : BOOLEAN,
            start_offset : {None} \cup (1..(MaxBase + MaxPatLen))] :
        c.start_offset = None
        \/ (c.offset <= c.start_offset /\ c.start_offset <= c.offset + c.length - 1)}

MergeInit ==
    /\ mg_self \in Candidates
    /\ mg_other \in Candidates
    /\ mg_res = [ok |-> FALSE, self |-> mg_self, err |-> <<>>]
    /\ mg_called = FALSE

TryMergeMut ==
    /\ ~mg_called
    /\ mg_res' = try_merge(mg_self, mg_other)
    /\ mg_called' = TRUE
    /\ UNCHANGED <<mg_self, mg_other, mergeFrame>>

MergeNext == TryMergeMut

\* the runs of at most n candidates that share one offset and are sorted by Ord
RECURSIVE SortedRuns(_)
SortedRuns(n) ==
    IF n = 0 THEN {<<>>}
    ELSE LET P == SortedRuns(n - 1)
         IN  P \cup {Append(x[1], x[2]) :
                       x \in {y \in P \X Candidates :
                                 /\ Len(y[1]) = n - 1
                                 /\ y[1] # <<>> =>
                                        /\ y[1][n - 1].offset = y[2].offset
                                        /\ cmp_le(y[1][n - 1], y[2])}}

FoldInit ==
    /\ fd_init \in SortedRuns(MaxRun)
    /\ fd_seq = fd_init

\* fd_seq[i].try_merge_mut(fd_seq[i + 1]) on two neighbours of the run: on Ok
\* the merged candidate takes the place of the two
MergePair(i) ==
    /\ i \in 1..(Len(fd_seq) - 1)
    /\ try_merge(fd_seq[i], fd_seq[i + 1]).ok
    /\ fd_seq' = SubSeq(fd_seq, 1, i - 1)
                    \o <<try_merge(fd_seq[i], fd_seq[i + 1]).self>>
                    \o SubSeq(fd_seq, i + 2, Len(fd_seq))
    /\ UNCHANGED <<fd_init, foldFrame>>

\* ScannerCandidate::merge_sorted over what is left of the run
MergeSorted ==
    /\ fd_seq # merge_sorted(fd_seq)
    /\ fd_seq' = merge_sorted(fd_seq)
    /\ UNCHANGED <<fd_init, foldFrame>>

FoldNext == (\E i \in 1..MaxRun : MergePair(i)) \/ MergeSorted

----------------------------------------------------------------------------
\* MemoryPagePermissions and MemoryPage

MASK_READ == 1
MASK_WRITE == 2
MASK_EXEC == 4
MASK_SHARE == 8

\* MemoryPagePermissions::new: the bits of the four flags
permissions_new(read, write, exec, share) ==
    (IF read THEN MASK_READ ELSE 0) + (IF write THEN MASK_WRITE ELSE 0)
        + (IF exec THEN MASK_EXEC ELSE 0) + (IF share THEN MASK_SHARE ELSE 0)

\* self.bits & rhs.bits on u8: bit k of the operands' upper bits a and b, and
\* the bits above it
RECURSIVE bitand_from(_, _, _)
bitand_from(a, b, k) ==
    IF k = 8 THEN 0
    ELSE (a % 2) * (b % 2) + 2 * bitand_from(a \div 2, b \div 2, k + 1)

\* (permissions that add up: the bitwise OR)
bitor(a, b) == a + b - bitand_from(a, b, 0)

bitand(a, b) == bitand_from(a, b, 0)

\* (a test that refuses ranges that only touch)
page_can_merge_overlap(a, b) == ~(a.end <= b.start \/ b.end <= a.start)

\* MemoryPage::try_merge_mut: whether the merge succeeds, and its result
page_can_merge(a, b) == ~(a.end < b.start \/ b.end < a.start)

\* (a merge that takes the end of the later page as the end of the two)
page_try_merge_mut_lastend(a, b) ==
    [start |-> Min(a.start, b.start),
     end |-> b.end,
     permissions |-> bitand(a.permissions, b.permissions),
     offset |-> Min(a.offset, b.offset),
     page_type |-> IF a.page_type # b.page_type THEN "Unknown" ELSE a.page_type]

page_try_merge_mut(a, b) ==
    [start |-> Min(a.start, b.start),
     end |-> Max(a.end, b.end),
     permissions |-> bitand(a.permissions, b.permissions),
     offset |-> Min(a.offset, b.offset),
     page_type |-> IF a.page_type # b.page_type THEN "Unknown" ELSE a.page_type]

\* one call self.try_merge_mut(other): Ok(()) with self merged, or Err(other)
\* with self as it was
page_try_merge(a, b) ==
    IF page_can_merge(a, b)
    THEN [ok |-> TRUE, self |-> page_try_merge_mut(a, b), err |-> <<>>]
    ELSE [ok |-> FALSE, self |-> a, err |-> <<b>>]

RECURSIVE page_merge_acc(_, _)
\* (a fold that, when a merge fails, emits the refused page and keeps the old
\* accumulator)
page_merge_acc_keepacc(acc, rest) ==
    IF rest = <<>> THEN <<acc>>
    ELSE IF page_can_merge(acc, Head(rest))
         THEN page_merge_acc(page_try_merge_mut(acc, Head(rest)), Tail(rest))
         ELSE <<Head(rest)>> \o page_merge_acc(acc, Tail(rest))

\* the closure given to AccFilter by merge_sorted, with AccFilter::next
page_merge_acc(acc, rest) ==
    IF rest = <<>> THEN <<acc>>
    ELSE IF page_can_merge(acc, Head(rest))
         THEN page_merge_acc(page_try_merge_mut(acc, Head(rest)), Tail(rest))
         ELSE <<acc>> \o page_merge_acc(Head(rest), Tail(rest))

\* MemoryPage::merge_sorted
page_merge_sorted(s) ==
    IF s = <<>> THEN <<>> ELSE page_merge_acc(Head(s), Tail(s))

PageTypes == {"Unknown", "Stack", "Heap"}

PermInputs ==
    {permissions_new(TRUE, TRUE, FALSE, TRUE),
     permissions_new(TRUE, FALSE, TRUE, FALSE),
     permissions_new(TRUE, TRUE, TRUE, TRUE)}

\* pages with start < end, as a memory map holds them
Pages ==
    {p \in [start : 1..MaxAddr, end : 1..MaxAddr, permissions : PermInputs,
            offset : {0, 1}, page_type : PageTypes] : p.start < p.end}

PageInit ==
    /\ pg_self \in Pages
    /\ pg_other \in Pages
    /\ pg_res = [ok |-> FALSE, self |-> pg_self, err |-> <<>>]
    /\ pg_called = FALSE

PageTryMergeMut ==
    /\ ~pg_called
    /\ pg_res' = page_try_merge(pg_self, pg_other)
    /\ pg_called' = TRUE
    /\ UNCHANGED <<pg_self, pg_other, pageFrame>>

PageNext == PageTryMergeMut

\* the pages of a run: mappings without a backing file (file offset 0), the
\* stack readable and writable
RunPages ==
    {p \in Pages : /\ p.offset = 0
                   /\ p.page_type \in {"Stack", "Heap"}
                   /\ p.permissions \in {permissions_new(TRUE, TRUE, FALSE, TRUE),
                                          permissions_new(TRUE, FALSE, TRUE, FALSE)}
                   /\ p.page_type = "Stack" =>
                          p.permissions = permissions_new(TRUE, TRUE, FALSE, TRUE)}

\* the runs of at most n pages sorted by start address
RECURSIVE SortedPageRuns(_)
SortedPageRuns(n) ==
    IF n = 0 THEN {<<>>}
    ELSE LET P == SortedPageRuns(n - 1)
         IN  P \cup {Append(x[1], x[2]) :
                       x \in {y \in P \X RunPages :
                                 /\ Len(y[1]) = n - 1
                                 /\ y[1] # <<>> => y[1][n - 1].start <= y[2].start}}

PageRunInit ==
    /\ pr_init \in SortedPageRuns(MaxRun)
    /\ pr_seq = pr_init
    /\ pr_first = <<>>
    /\ pr_passes = 0

\* MemoryPage::merge_sorted over the pages, collected: the first pass, or a
\* second pass over the result of the first
PageMergeSorted ==
    /\ pr_passes < 2
    /\ pr_seq' = page_merge_sorted(pr_seq)
    /\ pr_first' = IF pr_passes = 0 THEN page_merge_sorted(pr_seq) ELSE pr_first
    /\ pr_passes' = pr_passes + 1
    /\ UNCHANGED <<pr_init, pageRunFrame>>

PageRunNext == PageMergeSorted

----------------------------------------------------------------------------
\* ValuePredicate

Bytes == {0, 1}

\* (a predicate that never looks at the alignment)
offset_aligned_ignored(offset) == TRUE

offset_aligned(offset) == ~sc_aligned \/ offset % sc_align = 0

\* Option<ScannerCandidate> as a sequence of at most one candidate
try_start_candidate(offset, byte) ==
    IF offset_aligned(offset) /\ sc_pat[1] = byte
    THEN <<IF Len(sc_pat) = 1 THEN resolved(offset, 1) ELSE normal(offset)>>
    ELSE <<>>

\* (an update that takes any byte for the next byte of the pattern)
update_candidate_anybyte(offset, byte, c) ==
    IF c.length >= Len(sc_pat) THEN "Panic"
    ELSE IF c.length = Len(sc_pat) - 1 THEN "Resolve"
    ELSE "Advance"

\* "Panic": the debug assertion and the index bytes[candidate.length] both fail
\* when the candidate is as long as the pattern
update_candidate(offset, byte, c) ==
    IF c.length >= Len(sc_pat) THEN "Panic"
    ELSE IF sc_pat[c.length + 1] # byte THEN "Remove"
    ELSE IF c.length = Len(sc_pat) - 1 THEN "Resolve"
    ELSE "Advance"

RECURSIVE partial_from(_, _, _)
partial_from(i, offset, byte) ==
    IF i < 1 THEN <<>>
    ELSE LET p == saturating_sub(offset, i)
             here == IF byte # sc_pat[i + 1] \/ p = 0 \/ ~offset_aligned(p)
                     THEN <<>>
                     ELSE IF i + 1 = Len(sc_pat)
                          THEN <<partial_resolved(p, i + 1)>>
                          ELSE <<partial(p, i + 1)>>
         IN  here \o partial_from(i - 1, offset, byte)

try_start_partial_candidates(offset, byte) ==
    partial_from(Len(sc_pat) - 1, offset, byte)

----------------------------------------------------------------------------
\* StreamScanner

Scanners == {1, 2}

RemoveAt(s, i) == SubSeq(s, 1, i - 1) \o SubSeq(s, i + 1, Len(s))

\* (a loop that hands every candidate to the predicate, wherever it ends)
RECURSIVE on_byte_loop_everywhere(_, _, _, _, _)
on_byte_loop_everywhere(cands, i, found, offset, byte) ==
    IF i > Len(cands)
    THEN [candidates |-> cands, found |-> found, panic |-> FALSE, cont |-> TRUE]
    ELSE LET r == update_candidate(offset, byte, cands[i]) IN
         CASE r = "Panic" ->
                [candidates |-> cands, found |-> found, panic |-> TRUE, cont |-> TRUE]
           [] r = "Advance" ->
                on_byte_loop_everywhere([cands EXCEPT ![i] = advance(@)], i + 1, found,
                                        offset, byte)
           [] r = "Remove" ->
                on_byte_loop_everywhere(RemoveAt(cands, i), i, found, offset, byte)
           [] r = "Resolve" /\ is_partial(cands[i]) ->
                on_byte_loop_everywhere(cands, i + 1, found, offset, byte)
           [] r = "Resolve" /\ ~is_partial(cands[i]) ->
                LET c == advance(cands[i]) IN
                on_byte_loop_everywhere(RemoveAt(cands, i), i,
                                        Append(found, <<c.offset, c.length>>),
                                        offset, byte)

\* the loop of on_byte over the candidates; the callback collects the matches
\* in `found` and returns false at its sc_stop-th invocation of the call
\* (`cont` is what on_byte returns)
RECURSIVE on_byte_loop(_, _, _, _, _)
on_byte_loop(cands, i, found, offset, byte) ==
    IF i > Len(cands)
    THEN [candidates |-> cands, found |-> found, panic |-> FALSE, cont |-> TRUE]
    ELSE IF end_offset(cands[i]) # offset
    THEN on_byte_loop(cands, i + 1, found, offset, byte)
    ELSE LET r == update_candidate(offset, byte, cands[i]) IN
         CASE r = "Panic" ->
                [candidates |-> cands, found |-> found, panic |-> TRUE, cont |-> TRUE]
           [] r = "Advance" ->
                on_byte_loop([cands EXCEPT ![i] = advance(@)], i + 1, found, offset, byte)
           [] r = "Skip" ->
                on_byte_loop(cands, i + 1, found, offset, byte)
           [] r = "Remove" ->
                on_byte_loop(RemoveAt(cands, i), i, found, offset, byte)
           [] r = "Resolve" /\ is_partial(cands[i]) ->
                on_byte_loop(cands, i + 1, found, offset, byte)
           [] r = "Resolve" /\ ~is_partial(cands[i]) ->
                LET c == advance(cands[i])
                    f == Append(found, <<c.offset, c.length>>)
                IN  IF Len(f) = sc_stop
                    THEN [candidates |-> RemoveAt(cands, i), found |-> f,
                          panic |-> FALSE, cont |-> FALSE]
                    ELSE on_byte_loop(RemoveAt(cands, i), i, f, offset, byte)

\* (a byte whose matches are reported ahead of the earlier ones)
on_byte_newest_first(cands, found, offset, byte) ==
    LET r == on_byte_loop(cands, 1, <<>>, offset, byte) IN
    IF r.panic \/ ~r.cont THEN [r EXCEPT !.found = @ \o found]
    ELSE [r EXCEPT !.candidates = @ \o try_start_candidate(offset, byte),
                   !.found = @ \o found]

\* (a byte loop that goes on after the callback has returned false)
on_byte_deaf(cands, found, offset, byte) ==
    LET r == on_byte_loop(cands, 1, found, offset, byte) IN
    IF r.panic THEN r
    ELSE [r EXCEPT !.candidates = @ \o try_start_candidate(offset, byte),
                   !.cont = TRUE]

on_byte(cands, found, offset, byte) ==
    LET r == on_byte_loop(cands, 1, found, offset, byte) IN
    IF r.panic \/ ~r.cont THEN r
    ELSE [r EXCEPT !.candidates = @ \o try_start_candidate(offset, byte)]

\* the byte loop shared by scan_once and scan_partial
RECURSIVE scan_bytes(_, _, _, _)
scan_bytes(cands, found, offset, stream) ==
    IF stream = <<>>
    THEN [candidates |-> cands, found |-> found, panic |-> FALSE, cont |-> TRUE]
    ELSE LET r == on_byte(cands, found, offset, Head(stream)) IN
         IF r.panic \/ ~r.cont THEN r
         ELSE scan_bytes(r.candidates, r.found, saturating_add(offset, 1), Tail(stream))

\* (the byte loop over whatever candidates the scanner holds)
scan_once_noreset(cands, offset, stream) == scan_bytes(cands, <<>>, offset, stream)

\* reset(), then the byte loop
scan_once(cands, offset, stream) == scan_bytes(<<>>, <<>>, offset, stream)

on_start(cands, offset, byte) == cands \o try_start_partial_candidates(offset, byte)

\* (a partial scan that starts from an empty candidate set, as scan_once does)
scan_partial_reset(cands, offset, stream) ==
    IF stream = <<>>
    THEN [candidates |-> <<>>, found |-> <<>>, panic |-> FALSE, starts |-> 0]
    ELSE LET r == scan_bytes(on_start(<<>>, offset, Head(stream)), <<>>, offset, stream)
         IN  [candidates |-> r.candidates, found |-> r.found, panic |-> r.panic,
              starts |-> 1]

\* an empty sequence returns at once; otherwise on_start and the byte loop
\* (`starts` counts the calls of on_start)
scan_partial(cands, offset, stream) ==
    IF stream = <<>>
    THEN [candidates |-> cands, found |-> <<>>, panic |-> FALSE, starts |-> 0]
    ELSE LET r == scan_bytes(on_start(cands, offset, Head(stream)), <<>>, offset, stream)
         IN  [candidates |-> r.candidates, found |-> r.found, panic |-> r.panic,
              starts |-> 1]

\* insertion of c into a sorted sequence, after its equals (a stable sort)
RECURSIVE insert_sorted(_, _)
insert_sorted(c, s) ==
    IF s = <<>> THEN <<c>>
    ELSE IF cmp_le(Head(s), c) THEN <<Head(s)>> \o insert_sorted(c, Tail(s))
    ELSE <<c>> \o s

RECURSIVE sort(_)
sort(s) == IF s = <<>> THEN <<>> ELSE insert_sorted(s[Len(s)], sort(SubSeq(s, 1, Len(s) - 1)))

\* resolve_partial of the specification: sort, sweep through the merge
\* operator, yield and remove what is non-partial and resolved
resolve_partial(cands) ==
    LET merged == merge_sorted(sort(cands))
        done(c) == ~is_partial(c) /\ c.resolved
        rest(c) == ~done(c)
        out == SelectSeq(merged, done)
    IN  [candidates |-> SelectSeq(merged, rest),
         found |-> [i \in 1..Len(out) |-> <<out[i].offset, out[i].length>>]]

\* sequences over S of length lo..hi
SeqsOf(S, lo, hi) == UNION {[1..n -> S] : n \in lo..hi}

\* a ValuePredicate<T>: the byte length of a value is a multiple of T's
\* alignment. With alignment 1 every offset is aligned and an aligned
\* predicate behaves as an unaligned one, and an unaligned predicate never
\* reads the alignment: aligned predicates are taken with alignment 2,
\* unaligned ones with alignment 1 (any length).
ScanStart ==
    /\ sc_aligned \in BOOLEAN
    /\ sc_align = IF sc_aligned THEN 2 ELSE 1
    /\ sc_pat \in {p \in SeqsOf(Bytes, 1, MaxPatLen) : Len(p) % sc_align = 0}
    /\ sc_data \in SeqsOf(Bytes, 1, MaxDataLen)
    /\ sc_base \in 1..MaxBase
    /\ sc_cands = [s \in Scanners |-> <<>>]
    /\ sc_found = <<>>
    /\ sc_once = <<>>
    /\ sc_scanned = {}
    /\ sc_status = "ok"
    /\ sc_last = "new"
    /\ sc_asc = TRUE
    /\ sc_fresh = TRUE
    /\ sc_used = {}
    /\ sc_pre = <<>>
    /\ sc_emit = <<>>
    /\ sc_starts = 0
    /\ sc_chunk = <<1, 0>>

\* a callback that always returns true
ScanInit == ScanStart /\ sc_stop = 0

\* a callback that returns false at one of its invocations
CancelInit == ScanStart /\ sc_stop \in 1..(MaxDataLen - 1)

scanInputs == <<sc_pat, sc_aligned, sc_align, sc_data, sc_base, sc_stop>>

\* a stream that lies at the top of the address space, or is handed to the
\* scanner with offsets that run past it
HighInit ==
    /\ sc_aligned \in BOOLEAN
    /\ sc_align = IF sc_aligned THEN 2 ELSE 1
    /\ sc_pat \in {p \in SeqsOf(Bytes, 1, MaxPatLen) : Len(p) % sc_align = 0}
    /\ sc_data \in SeqsOf(Bytes, 1, MaxDataLen)
    /\ sc_base \in (usize_MAX - MaxDataLen)..usize_MAX
    /\ sc_cands = [s \in Scanners |-> <<>>]
    /\ sc_found = <<>>
    /\ sc_once = <<>>
    /\ sc_scanned = {}
    /\ sc_status = "ok"
    /\ sc_last = "new"
    /\ sc_asc = TRUE
    /\ sc_fresh = TRUE
    /\ sc_used = {}
    /\ sc_pre = <<>>
    /\ sc_emit = <<>>
    /\ sc_starts = 0
    /\ sc_chunk = <<1, 0>>
    /\ sc_stop = 0

\* scan_once over the whole memory, before the partial scans or between
\* them (where it breaks their protocol)
ScanOnce(s) ==
    /\ sc_status = "ok"
    /\ sc_scanned # 1..Len(sc_data)
    /\ LET r == scan_once(sc_cands[s], sc_base, sc_data) IN
       /\ sc_cands' = [sc_cands EXCEPT ![s] = r.candidates]
       /\ sc_once' = r.found
       /\ sc_emit' = r.found
       /\ sc_status' = IF r.panic THEN "panic" ELSE "ok"
    /\ sc_pre' = sc_cands[s]
    /\ sc_last' = "scan_once"
    /\ sc_asc' = (sc_asc /\ sc_scanned = {})
    /\ sc_fresh' = (sc_fresh /\ sc_scanned = {})
    /\ UNCHANGED <<scanInputs, sc_found, sc_scanned, sc_used, sc_starts, sc_chunk, scanFrame>>

\* reset() between whole scans and the partial scans
Reset(s) ==
    /\ sc_status = "ok"
    /\ sc_scanned = {}
    /\ sc_cands[s] # <<>>
    /\ sc_cands' = [sc_cands EXCEPT ![s] = <<>>]
    /\ sc_pre' = sc_cands[s]
    /\ sc_emit' = <<>>
    /\ sc_last' = "reset"
    /\ UNCHANGED <<scanInputs, sc_found, sc_once, sc_scanned, sc_status, sc_asc, sc_fresh, sc_used,
                   sc_starts, sc_chunk, scanFrame>>

\* scan_partial of scanner s over the bytes lo..hi of the memory, which no
\* partial scan has read yet (hi = lo - 1 is an empty sequence)
ScanPartial(s, lo, hi) ==
    /\ sc_status = "ok"
    /\ lo <= hi + 1
    /\ (lo..hi) \cap sc_scanned = {}
    /\ LET r == scan_partial(sc_cands[s], saturating_add(sc_base, lo - 1),
                             SubSeq(sc_data, lo, hi)) IN
       /\ sc_cands' = [sc_cands EXCEPT ![s] = r.candidates]
       /\ sc_found' = sc_found \o r.found
       /\ sc_emit' = r.found
       /\ sc_starts' = r.starts
       /\ sc_status' = IF r.panic THEN "panic" ELSE "ok"
    /\ sc_pre' = sc_cands[s]
    /\ sc_chunk' = <<lo, hi>>
    /\ sc_scanned' = sc_scanned \cup (lo..hi)
    /\ sc_last' = "scan_partial"
    /\ sc_asc' = (sc_asc /\ s = 1 /\ sc_scanned = 1..(lo - 1))
    /\ sc_fresh' = IF sc_scanned = {} THEN \A t \in Scanners : sc_cands[t] = <<>>
                   ELSE sc_fresh
    /\ sc_used' = sc_used \cup {s}
    /\ UNCHANGED <<scanInputs, sc_once, scanFrame>>

\* one round of the byte loop of scan_partial, for the byte at position p of
\* the memory, which no scan has read yet; first: the byte opens a new
\* sequence (on_start runs before on_byte), else it follows the byte before
\* it in the sequence being scanned
OnByte(p, first) ==
    /\ sc_status = "ok"
    /\ p \in (1..Len(sc_data)) \ sc_scanned
    /\ ~first => (sc_last = "on_byte" /\ p = sc_chunk[2] + 1)
    /\ LET o == saturating_add(sc_base, p - 1)
           pre == IF first THEN on_start(sc_cands[1], o, sc_data[p]) ELSE sc_cands[1]
           r == on_byte(pre, <<>>, o, sc_data[p])
       IN  /\ sc_cands' = [sc_cands EXCEPT ![1] = r.candidates]
           /\ sc_found' = sc_found \o r.found
           /\ sc_emit' = r.found
           /\ sc_status' = IF r.panic THEN "panic" ELSE "ok"
           /\ sc_pre' = pre
    /\ sc_chunk' = <<IF first THEN p ELSE sc_chunk[1], p>>
    /\ sc_scanned' = sc_scanned \cup {p}
    /\ sc_last' = "on_byte"
    /\ UNCHANGED <<scanInputs, sc_once, sc_asc, sc_fresh, sc_used, sc_starts, scanFrame>>

\* merge_mut of scanner t into scanner s, once every chunk has been scanned:
\* its body is todo!()
MergeMut(s, t) ==
    /\ sc_status = "ok"
    /\ s # t
    /\ sc_scanned = 1..Len(sc_data)
    /\ sc_status' = "panic"
    /\ sc_pre' = sc_cands[s]
    /\ sc_emit' = <<>>
    /\ sc_last' = "merge_mut"
    /\ UNCHANGED <<scanInputs, sc_cands, sc_found, sc_once, sc_scanned, sc_asc, sc_fresh, sc_used,
                   sc_starts, sc_chunk, scanFrame>>

\* resolve_partial, called after the partial scans, and once more after that
ResolvePartial(s) ==
    /\ sc_status = "ok"
    /\ sc_last \in {"scan_partial", "resolve_partial", "resolve_partial_again"}
    /\ sc_scanned = 1..Len(sc_data)
    /\ LET r == resolve_partial(sc_cands[s]) IN
       /\ sc_cands' = [sc_cands EXCEPT ![s] = r.candidates]
       /\ sc_found' = sc_found \o r.found
       /\ sc_emit' = r.found
    /\ sc_pre' = sc_cands[s]
    /\ sc_last' = IF sc_last = "scan_partial" THEN "resolve_partial"
                  ELSE "resolve_partial_again"
    /\ UNCHANGED <<scanInputs, sc_once, sc_scanned, sc_status, sc_asc, sc_fresh, sc_used,
                   sc_starts, sc_chunk, scanFrame>>

\* one scanner: a whole scan, then partial scans of non-empty chunks, resolved
ScanNext ==
    \/ sc_scanned = {} /\ ScanOnce(1)
    \/ Reset(1)
    \/ \E lo, hi \in 1..Len(sc_data) : lo <= hi /\ ScanPartial(1, lo, hi)
    \/ ResolvePartial(1)

\* one scanner, whole scans between partial scans: the partial scans go up
\* the memory, may leave bytes out and may be given an empty sequence
ScanCallsNext ==
    \/ ScanOnce(1)
    \/ \E lo \in 1..Len(sc_data), hi \in 0..Len(sc_data) :
          /\ lo <= hi \/ (lo = 1 /\ hi = 0)
          /\ \A i \in sc_scanned : i < lo
          /\ ScanPartial(1, lo, hi)

\* one scanner: partial scans of sequences anywhere in the memory, byte by byte
ScanBytesNext == \E p \in 1..MaxDataLen, first \in BOOLEAN : OnByte(p, first)

\* one scanner: whole scans of the stream
ScanHighNext == ScanOnce(1)

\* one scanner: scan_once on a new scanner, and partial scans of chunks in
\* ascending order
ScanCancelNext ==
    \/ (sc_scanned = {} /\ ScanOnce(1))
    \/ \E lo, hi \in 1..Len(sc_data) :
          lo <= hi /\ (\A i \in sc_scanned : i < lo) /\ ScanPartial(1, lo, hi)

\* several scanners that share the predicate, merged at the end
MultiScanNext ==
    \/ \E s \in Scanners : sc_scanned = {} /\ ScanOnce(s)
    \/ \E s \in Scanners : Reset(s)
    \/ \E s \in Scanners, lo, hi \in 1..Len(sc_data) : lo <= hi /\ ScanPartial(s, lo, hi)
    \/ \E s, t \in Scanners : MergeMut(s, t)
    \/ \E s \in Scanners : ResolvePartial(s)

----------------------------------------------------------------------------
\* ValuePredicate::try_start_partial_candidates called on its own

PredInit ==
    /\ ScanInit
    /\ sc_data = <<0>>
    /\ sc_base = 1
    /\ pc_offset = 1
    /\ pc_byte = 0
    /\ pc_res = <<>>
    /\ pc_called = FALSE

TryStartPartialCandidates ==
    \E o \in 1..(MaxBase + MaxDataLen), b \in Bytes :
        /\ pc_offset' = o
        /\ pc_byte' = b
        /\ pc_res' = try_start_partial_candidates(o, b)
        /\ pc_called' = TRUE
        /\ UNCHANGED predFrame

PredNext == TryStartPartialCandidates

----------------------------------------------------------------------------
\* MemoryAccess: ProcfsAccess and MachAccess

\* width of u32 in the model: narrower than usize, as on the 64-bit targets of
\* MachAccess
U32Bits == UsizeBits - 1

\* Read::read_exact and Write::write_all on /proc/<pid>/mem: avail bytes can be
\* transferred before the file ends or a transfer fails
read_exact(len, avail) ==
    IF avail >= len THEN [res |-> "Ok", done |-> len]
    ELSE [res |-> "Err", done |-> avail]

write_all(len, avail) ==
    IF avail >= len THEN [res |-> "Ok", done |-> len]
    ELSE [res |-> "Err", done |-> avail]

procfs_read(len, seek_ok, avail) ==
    IF ~seek_ok THEN [res |-> "Err", done |-> 0] ELSE read_exact(len, avail)

procfs_write(len, seek_ok, avail) ==
    IF ~seek_ok THEN [res |-> "Err", done |-> 0] ELSE write_all(len, avail)

\* mach_vm_read_overwrite and mach_vm_write: the kernel transfers the size it
\* is given, or nothing
mach_vm_read_overwrite(size, success) ==
    [success |-> success, read_len |-> IF success THEN size ELSE 0]

mach_vm_write(size, success) ==
    [success |-> success, written |-> IF success THEN size ELSE 0]

\* buffer.len() as u64 keeps the length; the debug assertion compares
\* read_len with it
mach_read(len, success) ==
    LET r == mach_vm_read_overwrite(len, success) IN
    IF ~r.success THEN [res |-> "Err", done |-> 0]
    ELSE IF r.read_len # len THEN [res |-> "Panic", done |-> r.read_len]
    ELSE [res |-> "Ok", done |-> r.read_len]

\* data.len() as u32 keeps the low 32 bits of the length
mach_write(len, success) ==
    LET r == mach_vm_write(len % 2^U32Bits, success) IN
    IF ~r.success THEN [res |-> "Err", done |-> 0]
    ELSE [res |-> "Ok", done |-> r.written]

AccessInit ==
    /\ ac_impl \in {"procfs", "mach"}
    /\ ac_op = "new"
    /\ ac_len = 0
    /\ ac_done = 0
    /\ ac_res = "Ok"

AccessCalled(op, len, r) ==
    /\ ac_op' = op
    /\ ac_len' = len
    /\ ac_done' = r.done
    /\ ac_res' = r.res
    /\ UNCHANGED <<ac_impl, accessFrame>>

AccessRead ==
    \E len \in 0..usize_MAX, seek_ok \in BOOLEAN, avail \in 0..usize_MAX :
        AccessCalled("read", len,
                     IF ac_impl = "procfs" THEN procfs_read(len, seek_ok, avail)
                     ELSE mach_read(len, seek_ok))

AccessWrite ==
    \E len \in 0..usize_MAX, seek_ok \in BOOLEAN, avail \in 0..usize_MAX :
        AccessCalled("write", len,
                     IF ac_impl = "procfs" THEN procfs_write(len, seek_ok, avail)
                     ELSE mach_write(len, seek_ok))

AccessNext == AccessRead \/ AccessWrite

----------------------------------------------------------------------------
\* OffsetType on its own

\* OffsetType::new: Option<OffsetType> as a sequence of at most one offset
offset_new(n) == IF n = 0 THEN <<>> ELSE <<n>>

OffsetInit ==
    /\ of_val = <<>>
    /\ of_op = "none"
    /\ of_prev = 1
    /\ of_rhs = 0

OffsetNew ==
    \E n \in 0..usize_MAX :
        /\ of_val' = offset_new(n)
        /\ of_op' = "new"
        /\ of_rhs' = n
        /\ UNCHANGED <<of_prev, offsetFrame>>

OffsetSaturatingAdd ==
    \E rhs \in 0..usize_MAX :
        /\ of_val # <<>>
        /\ of_val' = <<saturating_add(of_val[1], rhs)>>
        /\ of_op' = "saturating_add"
        /\ of_prev' = of_val[1]
        /\ of_rhs' = rhs
        /\ UNCHANGED offsetFrame

OffsetNext == OffsetNew \/ OffsetSaturatingAdd

----------------------------------------------------------------------------
\* The front ends: App of procmem_repl, PyProcmemSimple, main of string_finder

FrontApps == {"repl", "python", "string_finder"}

\* the value scanned for is one i16, and a page has room for it once; the pages
\* lie apart from each other
FrontPageSize == Len(sc_pat)

FrontPageStart(i) == 1 + (i - 1) * (FrontPageSize + 1)

FrontPages ==
    {[i \in 1..MaxPages |-> [start |-> FrontPageStart(i), data |-> d[i]]] :
        d \in [1..MaxPages -> [1..FrontPageSize -> Bytes]]}

LockOk == {"OkTrue", "OkFalse"}

\* the offsets scan_once yields for one page; FrontScans: for each page
page_offsets(page) ==
    LET r == scan_once(<<>>, page.start, page.data) IN
    [panic |-> r.panic, offsets |-> {r.found[k][1] : k \in 1..Len(r.found)}]

FrontScans == [i \in 1..Len(fe_pages) |-> page_offsets(fe_pages[i])]

\* App::scan_exact, the loop over the pages: a failed read returns the error;
\* scans[i]: what scanner.scan_once yields for page i
RECURSIVE repl_pages(_, _, _, _, _, _, _)
repl_pages(pages, scans, i, failed, current, new_matches, scanned) ==
    IF i > Len(pages)
    THEN [res |-> "Ok", matches |-> new_matches, scanned |-> scanned]
    ELSE IF i \in failed
    THEN [res |-> "Err", matches |-> new_matches, scanned |-> scanned]
    ELSE LET r == scans[i] IN
         IF r.panic
         THEN [res |-> "Panic", matches |-> new_matches, scanned |-> scanned]
         ELSE repl_pages(pages, scans, i + 1, failed, current,
                         new_matches \cup {o \in r.offsets : current = {} \/ o \in current},
                         scanned \cup {i})

\* App::scan_exact
repl_scan_exact(c, stopped, current, pages, scans, failed, lout, uout) ==
    LET l == lock(c, stopped, lout)
        s == repl_pages(pages, scans, 1, failed, current, {}, {})
        u == unlock(l.counter, l.stopped, uout)
    IN  IF l.res \notin LockOk
        THEN [counter |-> l.counter, stopped |-> l.stopped, res |-> "Err",
              why |-> "lock", current |-> current, out |-> {}, scanned |-> {}]
        ELSE IF s.res # "Ok"
        THEN [counter |-> l.counter, stopped |-> l.stopped, res |-> s.res,
              why |-> "memory", current |-> current, out |-> {},
              scanned |-> s.scanned]
        ELSE IF u.res \notin LockOk
        THEN [counter |-> u.counter, stopped |-> u.stopped, res |-> "Err",
              why |-> "unlock", current |-> s.matches, out |-> {},
              scanned |-> s.scanned]
        ELSE [counter |-> u.counter, stopped |-> u.stopped, res |-> "Ok",
              why |-> "none", current |-> s.matches, out |-> s.matches,
              scanned |-> s.scanned]

\* PyProcmemSimple::scan_exact, the loop over the pages (a list of MemoryPage
\* objects): a failed read returns the error
RECURSIVE py_pages(_, _, _, _, _, _)
py_pages(pages, scans, i, failed, matches, scanned) ==
    IF i > Len(pages)
    THEN [res |-> "Ok", matches |-> matches, scanned |-> scanned]
    ELSE IF i \in failed
    THEN [res |-> "Err", matches |-> matches, scanned |-> scanned]
    ELSE LET r == scans[i] IN
         IF r.panic
         THEN [res |-> "Panic", matches |-> matches, scanned |-> scanned]
         ELSE py_pages(pages, scans, i + 1, failed, matches \cup r.offsets, scanned \cup {i})

\* PyProcmemSimple::scan_exact; arg_ok: MemValue::try_from_py accepts the value
py_scan_exact(c, stopped, pages, scans, failed, arg_ok, lout, uout) ==
    LET l == lock(c, stopped, lout)
        s == py_pages(pages, scans, 1, failed, {}, {})
        u == unlock(l.counter, l.stopped, uout)
    IN  IF l.res \notin LockOk
        THEN [counter |-> l.counter, stopped |-> l.stopped, res |-> "Err",
              why |-> "lock", out |-> {}, scanned |-> {}]
        ELSE IF ~arg_ok
        THEN [counter |-> l.counter, stopped |-> l.stopped, res |-> "Err",
              why |-> "argument", out |-> {}, scanned |-> {}]
        ELSE IF s.res # "Ok"
        THEN [counter |-> l.counter, stopped |-> l.stopped, res |-> s.res,
              why |-> "memory", out |-> {}, scanned |-> s.scanned]
        ELSE IF u.res \notin LockOk
        THEN [counter |-> u.counter, stopped |-> u.stopped, res |-> "Err",
              why |-> "unlock", out |-> {}, scanned |-> s.scanned]
        ELSE [counter |-> u.counter, stopped |-> u.stopped, res |-> "Ok",
              why |-> "none", out |-> s.matches, scanned |-> s.scanned]

\* main of string_finder, the loop over the pages: a failed read is logged and
\* the loop continues; every match is printed as it is found
RECURSIVE finder_pages(_, _, _, _, _, _)
finder_pages(pages, scans, i, failed, printed, scanned) ==
    IF i > Len(pages)
    THEN [res |-> "Ok", matches |-> printed, scanned |-> scanned]
    ELSE IF i \in failed
    THEN finder_pages(pages, scans, i + 1, failed, printed, scanned)
    ELSE LET r == scans[i] IN
         IF r.panic
         THEN [res |-> "Panic", matches |-> printed, scanned |-> scanned]
         ELSE finder_pages(pages, scans, i + 1, failed, printed \cup r.offsets,
                           scanned \cup {i})

\* main of string_finder: lock, the pages, unlock; the lock is dropped when
\* main returns
string_finder_main(c, stopped, pages, scans, failed, lout, uout, dout) ==
    LET l == lock(c, stopped, lout)
        s == finder_pages(pages, scans, 1, failed, {}, {})
        u == unlock(l.counter, l.stopped, uout)
        e == IF l.res \notin LockOk
             THEN [counter |-> l.counter, stopped |-> l.stopped, res |-> "Err",
                   why |-> "lock", out |-> {}, scanned |-> {}]
             ELSE IF s.res # "Ok"
             THEN [counter |-> l.counter, stopped |-> l.stopped, res |-> s.res,
                   why |-> "memory", out |-> s.matches, scanned |-> s.scanned]
             ELSE IF u.res \notin LockOk
             THEN [counter |-> u.counter, stopped |-> u.stopped, res |-> "Err",
                   why |-> "unlock", out |-> s.matches, scanned |-> s.scanned]
             ELSE [counter |-> u.counter, stopped |-> u.stopped, res |-> "Ok",
                   why |-> "none", out |-> s.matches, scanned |-> s.scanned]
        d == drop(e.counter, e.stopped, lout, dout)
    IN  [e EXCEPT !.counter = d.counter, !.stopped = d.stopped,
                  !.res = IF d.res = "Panic" THEN "Panic" ELSE e.res]

\* what the caller passes as offset and value: accepted, an unknown type name
\* or a value of another type, the "str" type, the offset 0
FrontArgs == {"ok", "invalid", "str", "zero"}

\* PyProcmemSimple::read; io_ok: MemoryAccess::read succeeds
py_read(c, stopped, arg, io_ok, lout, uout) ==
    LET l == lock(c, stopped, lout)
        u == unlock(l.counter, l.stopped, uout)
    IN  IF l.res \notin LockOk
        THEN [counter |-> l.counter, stopped |-> l.stopped, res |-> "Err", why |-> "lock"]
        ELSE IF arg = "zero"
        THEN [counter |-> l.counter, stopped |-> l.stopped, res |-> "Panic",
              why |-> "argument"]
        ELSE IF arg = "str"
        THEN [counter |-> l.counter, stopped |-> l.stopped, res |-> "Panic",
              why |-> "argument"]
        ELSE IF arg = "invalid"
        THEN [counter |-> l.counter, stopped |-> l.stopped, res |-> "Err",
              why |-> "argument"]
        ELSE IF ~io_ok
        THEN [counter |-> l.counter, stopped |-> l.stopped, res |-> "Err",
              why |-> "memory"]
        ELSE IF u.res \notin LockOk
        THEN [counter |-> u.counter, stopped |-> u.stopped, res |-> "Err",
              why |-> "unlock"]
        ELSE [counter |-> u.counter, stopped |-> u.stopped, res |-> "Ok", why |-> "none"]

\* PyProcmemSimple::write; io_ok: MemoryAccess::write succeeds
py_write(c, stopped, arg, io_ok, lout, uout) ==
    LET l == lock(c, stopped, lout)
        u == unlock(l.counter, l.stopped, uout)
    IN  IF l.res \notin LockOk
        THEN [counter |-> l.counter, stopped |-> l.stopped, res |-> "Err", why |-> "lock"]
        ELSE IF arg = "zero"
        THEN [counter |-> l.counter, stopped |-> l.stopped, res |-> "Panic",
              why |-> "argument"]
        ELSE IF arg = "invalid"
        THEN [counter |-> l.counter, stopped |-> l.stopped, res |-> "Err",
              why |-> "argument"]
        ELSE IF ~io_ok
        THEN [counter |-> l.counter, stopped |-> l.stopped, res |-> "Err",
              why |-> "memory"]
        ELSE IF u.res \notin LockOk
        THEN [counter |-> u.counter, stopped |-> u.stopped, res |-> "Err",
              why |-> "unlock"]
        ELSE [counter |-> u.counter, stopped |-> u.stopped, res |-> "Ok", why |-> "none"]

\* App::write: the value is typed, only the offset can be refused
repl_write(c, stopped, arg, io_ok, lout, uout) ==
    LET l == lock(c, stopped, lout)
        u == unlock(l.counter, l.stopped, uout)
    IN  IF l.res \notin LockOk
        THEN [counter |-> l.counter, stopped |-> l.stopped, res |-> "Err", why |-> "lock"]
        ELSE IF arg = "zero"
        THEN [counter |-> l.counter, stopped |-> l.stopped, res |-> "Panic",
              why |-> "argument"]
        ELSE IF ~io_ok
        THEN [counter |-> l.counter, stopped |-> l.stopped, res |-> "Err",
              why |-> "memory"]
        ELSE IF u.res \notin LockOk
        THEN [counter |-> u.counter, stopped |-> u.stopped, res |-> "Err",
              why |-> "unlock"]
        ELSE [counter |-> u.counter, stopped |-> u.stopped, res |-> "Ok", why |-> "none"]

\* the outcomes of the platform calls, wherever the lock makes one: lock()
\* stops the target when no lock is held, unlock() continues it when the
\* last lock is released
FrontStops == IF lock_counter = 0 THEN StopOutcomes ELSE {"ok"}

FrontConts(c) == IF c = 1 \/ c = usize_MAX THEN CallOutcomes ELSE {"ok"}

\* a front end attached to a target, nothing called yet
FrontInit ==
    /\ LockInit
    /\ ScanInit
    /\ sc_aligned = FALSE
    /\ sc_pat = <<0, 1>>
    /\ sc_data = <<0>>
    /\ sc_base = 1
    /\ fe_app \in FrontApps
    /\ fe_user_locked = FALSE
    /\ fe_current = {}
    /\ fe_pages \in FrontPages
    /\ fe_op = "new"
    /\ fe_res = "Ok"
    /\ fe_why = "none"
    /\ fe_failed = {}
    /\ fe_scanned = {}
    /\ fe_out = {}
    /\ fe_entry = 0
    /\ fe_prev = {}

\* the effect of one call on the front end and on the lock it holds
FrontCalled(op, r) ==
    /\ fe_res # "Panic"
    /\ lock_counter < MaxHeld
    /\ lock_counter' = r.counter
    /\ target_stopped' = r.stopped
    /\ fe_op' = op
    /\ fe_res' = r.res
    /\ fe_why' = r.why
    /\ fe_entry' = lock_counter
    /\ fe_prev' = fe_current
    /\ UNCHANGED <<fe_app, fe_pages, lockGhosts, frontFrame>>

\* App::lock and PyProcmemSimple::stop: `self.lock.lock().unwrap()`
FrontLock ==
    /\ fe_app \in {"repl", "python"}
    /\ ~fe_user_locked
    /\ fe_user_locked' = TRUE
    /\ \E lout \in FrontStops :
         LET l == lock(lock_counter, target_stopped, lout) IN
         FrontCalled("lock", [counter |-> l.counter, stopped |-> l.stopped,
                              res |-> IF l.res \in LockOk THEN "Ok" ELSE "Panic",
                              why |-> IF l.res \in LockOk THEN "none" ELSE "lock"])
    /\ UNCHANGED <<fe_current, fe_failed, fe_scanned, fe_out>>

\* App::unlock and PyProcmemSimple::start: `self.lock.unlock().unwrap()`
FrontUnlock ==
    /\ fe_app \in {"repl", "python"}
    /\ fe_user_locked
    /\ fe_user_locked' = FALSE
    /\ \E uout \in FrontConts(lock_counter) :
         LET u == unlock(lock_counter, target_stopped, uout) IN
         FrontCalled("unlock", [counter |-> u.counter, stopped |-> u.stopped,
                                res |-> IF u.res \in LockOk THEN "Ok" ELSE "Panic",
                                why |-> IF u.res \in LockOk THEN "none" ELSE "unlock"])
    /\ UNCHANGED <<fe_current, fe_failed, fe_scanned, fe_out>>

\* App::reset
FrontReset ==
    /\ fe_app = "repl"
    /\ fe_current # {}
    /\ fe_current' = {}
    /\ FrontCalled("reset", [counter |-> lock_counter, stopped |-> target_stopped,
                             res |-> "Ok", why |-> "none"])
    /\ UNCHANGED <<fe_user_locked, fe_failed, fe_scanned, fe_out>>

FrontScanExact ==
    \E failed \in SUBSET (1..MaxPages), arg_ok \in BOOLEAN,
       lout \in FrontStops, uout \in FrontConts(lock_counter + 1) :
        /\ fe_app \in {"repl", "python"}
        /\ fe_app = "repl" => arg_ok
        /\ LET r == IF fe_app = "repl"
                    THEN repl_scan_exact(lock_counter, target_stopped, fe_current,
                                         fe_pages, FrontScans, failed, lout, uout)
                    ELSE py_scan_exact(lock_counter, target_stopped, fe_pages,
                                       FrontScans, failed, arg_ok, lout, uout)
           IN  /\ FrontCalled("scan_exact", r)
               /\ fe_current' = IF fe_app = "repl" THEN r.current ELSE fe_current
               /\ fe_out' = r.out
               /\ fe_scanned' = r.scanned
        /\ fe_failed' = failed
        /\ UNCHANGED fe_user_locked

FrontMain ==
    \E failed \in SUBSET (1..MaxPages), lout \in StopOutcomes,
       uout \in CallOutcomes, dout \in CallOutcomes :
        /\ fe_app = "string_finder"
        /\ fe_op = "new"
        /\ LET r == string_finder_main(lock_counter, target_stopped, fe_pages,
                                       FrontScans, failed, lout, uout, dout)
           IN  /\ FrontCalled("main", r)
               /\ fe_out' = r.out
               /\ fe_scanned' = r.scanned
        /\ fe_failed' = failed
        /\ UNCHANGED <<fe_user_locked, fe_current>>

FrontRead ==
    \E arg \in FrontArgs, io_ok \in BOOLEAN,
       lout \in FrontStops, uout \in FrontConts(lock_counter + 1) :
        /\ fe_app = "python"
        /\ FrontCalled("read", py_read(lock_counter, target_stopped, arg, io_ok,
                                       lout, uout))
        /\ UNCHANGED <<fe_user_locked, fe_current, fe_failed, fe_scanned, fe_out>>

FrontWrite ==
    \E arg \in FrontArgs \ {"str"}, io_ok \in BOOLEAN,
       lout \in FrontStops, uout \in FrontConts(lock_counter + 1) :
        /\ fe_app \in {"repl", "python"}
        /\ fe_app = "repl" => arg # "invalid"
        /\ FrontCalled("write",
                       IF fe_app = "repl"
                       THEN repl_write(lock_counter, target_stopped, arg, io_ok,
                                       lout, uout)
                       ELSE py_write(lock_counter, target_stopped, arg, io_ok,
                                     lout, uout))
        /\ UNCHANGED <<fe_user_locked, fe_current, fe_failed, fe_scanned, fe_out>>

FrontNext ==
    \/ FrontLock
    \/ FrontUnlock
    \/ FrontReset
    \/ FrontScanExact
    \/ FrontMain
    \/ FrontRead
    \/ FrontWrite

FrontIdle ==
    /\ fe_app = "repl"
    /\ fe_user_locked = FALSE
    /\ fe_current = {}
    /\ fe_pages = <<>>
    /\ fe_op = "new"
    /\ fe_res = "Ok"
    /\ fe_why = "none"
    /\ fe_failed = {}
    /\ fe_scanned = {}
    /\ fe_out = {}
    /\ fe_entry = 0
    /\ fe_prev = {}

----------------------------------------------------------------------------
\* MemoryMap: containing_page, and the lookup of ProcfsMemoryMap

\* sysconf(_SC_PAGESIZE) in the model
page_size == 2

\* Iterator::find: the first page the closure accepts, 0 for None
RECURSIVE find_from(_, _, _)
find_from(pages, i, offset) ==
    IF i > Len(pages) THEN 0
    ELSE IF offset >= pages[i].start /\ offset <= pages[i].end THEN i
    ELSE find_from(pages, i + 1, offset)

\* MemoryMap::containing_page, the provided method
containing_page(pages, offset) == find_from(pages, 1, offset)

\* ProcfsMemoryMap::page_start: the start of the system page of the offset,
\* 0 for None
page_start(offset) ==
    LET page_offset == offset % page_size IN offset - page_offset

\* offset_map: from the start of each region to its index in pages
offset_map(pages, start) ==
    IF \E i \in 1..Len(pages) : pages[i].start = start
    THEN CHOOSE i \in 1..Len(pages) :
             /\ pages[i].start = start
             /\ \A j \in 1..Len(pages) : pages[j].start = start => j <= i
    ELSE 0

\* ProcfsMemoryMap::page
procfs_page(pages, offset) ==
    LET start == page_start(offset) IN
    IF start = 0 THEN 0 ELSE offset_map(pages, start)

\* the regions of a target: in order, apart or adjacent, none empty
MapRanges == {r \in [start : 1..(usize_MAX - 1), end : 1..(usize_MAX - 1)] : r.start < r.end}

MapLayouts ==
    {<<r>> : r \in MapRanges}
        \cup {p \in {<<r, s>> : r \in MapRanges, s \in MapRanges} :
                  p[1].end <= p[2].start}

\* the kernel maps whole system pages
PageAligned(pages) ==
    \A i \in 1..Len(pages) :
        pages[i].start % page_size = 0 /\ pages[i].end % page_size = 0

MapInit ==
    /\ mp_impl \in {"default", "procfs"}
    /\ mp_pages \in MapLayouts
    /\ mp_impl = "procfs" => PageAligned(mp_pages)
    /\ mp_offset = 1
    /\ mp_res = 0
    /\ mp_called = FALSE

ContainingPage ==
    \E offset \in 1..usize_MAX :
        /\ mp_offset' = offset
        /\ mp_res' = IF mp_impl = "default" THEN containing_page(mp_pages, offset)
                     ELSE procfs_page(mp_pages, offset)
        /\ mp_called' = TRUE
        /\ UNCHANGED <<mp_impl, mp_pages, mapFrame>>

MapNext == ContainingPage

MapIdle ==
    /\ mp_impl = "default"
    /\ mp_pages = <<>>
    /\ mp_offset = 1
    /\ mp_res = 0
    /\ mp_called = FALSE

----------------------------------------------------------------------------
\* ProcfsMemoryMap::parse_map_line

\* the digits of the model and their values
DigitValue == [c \in {"0", "1", "2", "3", "5", "a"} |->
                 CASE c = "0" -> 0 [] c = "1" -> 1 [] c = "2" -> 2
                   [] c = "3" -> 3 [] c = "5" -> 5 [] c = "a" -> 10]

\* usize::from_str_radix and str::parse::<usize>: the value of the digits from
\* the left, an error for no digits, a digit outside the radix or a value
\* beyond usize::MAX
RECURSIVE parse_digits(_, _, _)
parse_digits(s, radix, acc) ==
    IF s = <<>> THEN [ok |-> TRUE, value |-> acc]
    ELSE IF Head(s) \notin DOMAIN DigitValue \/ DigitValue[Head(s)] >= radix
    THEN [ok |-> FALSE, value |-> 0]
    ELSE IF acc * radix + DigitValue[Head(s)] > usize_MAX
    THEN [ok |-> FALSE, value |-> 0]
    ELSE parse_digits(Tail(s), radix, acc * radix + DigitValue[Head(s)])

from_str_radix(s, radix) ==
    IF s = <<>> THEN [ok |-> FALSE, value |-> 0] ELSE parse_digits(s, radix, 0)

parse_usize(s) == from_str_radix(s, 10)

\* parse_page_permissions: one character for each flag
parse_page_permissions(s) ==
    IF /\ Len(s) >= 4
       /\ s[1] \in {"r", "-"}
       /\ s[2] \in {"w", "-"}
       /\ s[3] \in {"x", "-"}
       /\ s[4] \in {"s", "p"}
    THEN [ok |-> TRUE,
          value |-> permissions_new(s[1] = "r", s[2] = "w", s[3] = "x", s[4] = "s")]
    ELSE [ok |-> FALSE, value |-> 0]

\* parse_page_type: the tag or path of a region; exe_path is the path of the
\* executable of the target
exe_path == "/bin/target"

parse_page_type(s) ==
    CASE s = "[stack]" -> "Stack"
      [] s = "[heap]" -> "Heap"
      [] s = "" -> "Anon"
      [] s = "[vdso]" -> "Unknown"
      [] s = exe_path -> "ProcessExecutable"
      [] OTHER -> "File"

\* parse_map_line over the pieces of line.splitn(6, " "): the range, the
\* permissions, two pieces that are taken and dropped, the piece parsed as
\* the offset, and the rest of the line
parse_map_line(f) ==
    LET from == from_str_radix(f[1].from, 16)
        to == from_str_radix(f[1].to, 16)
        permissions == parse_page_permissions(f[2])
        offset == parse_usize(f[5])
    IN  IF ~from.ok \/ ~to.ok \/ ~permissions.ok \/ ~offset.ok
        THEN [ok |-> FALSE, page |-> <<>>]
        ELSE [ok |-> TRUE,
              page |-> [start |-> from.value, end |-> to.value,
                        permissions |-> permissions.value,
                        offset |-> offset.value,
                        page_type |-> parse_page_type(f[6])]]

\* region lines of /proc/<pid>/maps, and lines with a field spoilt
MapLines ==
    {<<[from |-> a, to |-> b], p, o, d, n, t>> :
        a \in {<<"1">>, <<"2">>}, b \in {<<"3">>, <<"a">>},
        p \in {<<"r", "w", "-", "p">>, <<"r", "-", "x", "s">>, <<"r", "w">>},
        o \in {<<"0">>, <<"2">>}, d \in {"00:00", "08:01"},
        n \in {<<"0">>, <<"5">>}, t \in {"[heap]", "[stack]", "", "[vdso]",
                                         "/bin/target", "/lib/libc.so"}}

LineInit ==
    /\ ml_line = <<>>
    /\ ml_res = [ok |-> FALSE, page |-> <<>>]
    /\ ml_called = FALSE

ParseMapLine ==
    \E line \in MapLines :
        /\ ml_line' = line
        /\ ml_res' = parse_map_line(line)
        /\ ml_called' = TRUE
        /\ UNCHANGED lineFrame

LineNext == ParseMapLine

----------------------------------------------------------------------------
\* ProcessContext with the attach counter (src/process.rs; the ptrace_lock
\* counter of src/context/process.rs is the same code under other names)

\* what waitpid(pid, NULL, 0) returns: the pid of the target once it has
\* stopped, or -1
target_pid == 1

WaitpidReturns == {target_pid, -1}

\* ptrace_attach_raw: the result of PTRACE_ATTACH is not looked at; an error
\* is returned when waitpid returns anything but 0
ptrace_attach_raw(attached, attach_ok, waitpid_res) ==
    [attached |-> attached \/ attach_ok, err |-> waitpid_res # 0]

\* ptrace_detach_raw: the result of PTRACE_DETACH is not looked at
ptrace_detach_raw(attached, detach_ok) ==
    [attached |-> attached /\ ~detach_ok, err |-> FALSE]

\* ProcessContext::ptrace_attach
ctx_ptrace_attach(c, attached, attach_ok, waitpid_res) ==
    LET r == ptrace_attach_raw(attached, attach_ok, waitpid_res) IN
    IF c = 1 /\ r.err
    THEN [counter |-> c, attached |-> r.attached, res |-> "Err", raw |-> <<"attach">>]
    ELSE IF c = 1
    THEN [counter |-> c + 1, attached |-> r.attached, res |-> "OkTrue",
          raw |-> <<"attach">>]
    ELSE [counter |-> (c + 1) % 2^UsizeBits, attached |-> attached, res |-> "OkFalse",
          raw |-> <<>>]

\* ProcessContext::ptrace_attach_exclusive
ctx_ptrace_attach_exclusive(c, attached, attach_ok, waitpid_res) ==
    IF c > 0
    THEN [counter |-> c, attached |-> attached, res |-> "AlreadyAttached", raw |-> <<>>]
    ELSE LET r == ctx_ptrace_attach(c, attached, attach_ok, waitpid_res) IN
         [r EXCEPT !.res = IF @ = "Err" THEN "Err" ELSE "Ok"]

\* ProcessContext::ptrace_detach
ctx_ptrace_detach(c, attached, detach_ok) ==
    LET r == ptrace_detach_raw(attached, detach_ok) IN
    IF c = 0
    THEN [counter |-> c, attached |-> attached, res |-> "NotAttached", raw |-> <<>>]
    ELSE IF c - 1 = 0
    THEN [counter |-> 0, attached |-> r.attached, res |-> "OkTrue",
          raw |-> <<"detach">>]
    ELSE [counter |-> c - 1, attached |-> attached, res |-> "OkFalse", raw |-> <<>>]

\* ProcessContext::read_memory and write_memory between the attach a and the
\* detach d: seek, then read_exact or write_all of len bytes of which avail
\* can be transferred
ctx_transfer(a, d, pos, offset, seek_ok, io) ==
    IF a.res \notin {"Ok", "OkTrue", "OkFalse"}
    THEN [counter |-> a.counter, attached |-> a.attached, res |-> a.res,
          raw |-> a.raw, pos |-> pos]
    ELSE IF io.res # "Ok"
    THEN [counter |-> a.counter, attached |-> a.attached, res |-> "Io",
          raw |-> a.raw, pos |-> IF seek_ok THEN offset + io.done ELSE pos]
    ELSE [counter |-> d.counter, attached |-> d.attached,
          res |-> IF d.res \in {"OkTrue", "OkFalse"} THEN "Ok" ELSE d.res,
          raw |-> a.raw \o d.raw, pos |-> offset + io.done]

\* ProcessContext::read_memory
read_memory(c, attached, pos, offset, len, attach_ok, wait_res, seek_ok, avail, det_ok) ==
    LET a == ctx_ptrace_attach(c, attached, attach_ok, wait_res)
        d == ctx_ptrace_detach(a.counter, a.attached, det_ok)
    IN  ctx_transfer(a, d, pos, offset, seek_ok, procfs_read(len, seek_ok, avail))

\* ProcessContext::write_memory
write_memory(c, attached, pos, offset, len, attach_ok, wait_res, seek_ok, avail, det_ok) ==
    LET a == ctx_ptrace_attach_exclusive(c, attached, attach_ok, wait_res)
        d == ctx_ptrace_detach(a.counter, a.attached, det_ok)
    IN  ctx_transfer(a, d, pos, offset, seek_ok, procfs_write(len, seek_ok, avail))

\* ProcessContext::new
CtxInit ==
    /\ cx_counter = 0
    /\ cx_attached = FALSE
    /\ cx_pos = 0
    /\ cx_op = "new"
    /\ cx_res = "Ok"
    /\ cx_raw = <<>>
    /\ cx_pre = 0
    /\ cx_pre_attached = FALSE

CtxCalled(op, r) ==
    /\ cx_counter' = r.counter
    /\ cx_attached' = r.attached
    /\ cx_op' = op
    /\ cx_res' = r.res
    /\ cx_raw' = r.raw
    /\ cx_pre' = cx_counter
    /\ cx_pre_attached' = cx_attached
    /\ UNCHANGED ctxFrame

CtxAttach ==
    \E attach_ok \in BOOLEAN, waitpid_res \in WaitpidReturns :
        /\ CtxCalled("ptrace_attach",
                     ctx_ptrace_attach(cx_counter, cx_attached, attach_ok, waitpid_res))
        /\ UNCHANGED cx_pos

CtxAttachExclusive ==
    \E attach_ok \in BOOLEAN, waitpid_res \in WaitpidReturns :
        /\ CtxCalled("ptrace_attach_exclusive",
                     ctx_ptrace_attach_exclusive(cx_counter, cx_attached, attach_ok,
                                                 waitpid_res))
        /\ UNCHANGED cx_pos

CtxDetach ==
    \E detach_ok \in BOOLEAN :
        /\ CtxCalled("ptrace_detach",
                     ctx_ptrace_detach(cx_counter, cx_attached, detach_ok))
        /\ UNCHANGED cx_pos

CtxReadMemory ==
    \E offset \in 1..MaxBase, len \in 0..MaxDataLen, attach_ok \in BOOLEAN,
       waitpid_res \in WaitpidReturns, seek_ok \in BOOLEAN, avail \in 0..MaxDataLen,
       detach_ok \in BOOLEAN :
        LET r == read_memory(cx_counter, cx_attached, cx_pos, offset, len, attach_ok,
                             waitpid_res, seek_ok, avail, detach_ok)
        IN  CtxCalled("read_memory", r) /\ cx_pos' = r.pos

CtxWriteMemory ==
    \E offset \in 1..MaxBase, len \in 0..MaxDataLen, attach_ok \in BOOLEAN,
       waitpid_res \in WaitpidReturns, seek_ok \in BOOLEAN, avail \in 0..MaxDataLen,
       detach_ok \in BOOLEAN :
        LET r == write_memory(cx_counter, cx_attached, cx_pos, offset, len, attach_ok,
                              waitpid_res, seek_ok, avail, detach_ok)
        IN  CtxCalled("write_memory", r) /\ cx_pos' = r.pos

CtxNext ==
    \/ CtxAttach
    \/ CtxAttachExclusive
    \/ CtxDetach
    \/ CtxReadMemory
    \/ CtxWriteMemory

----------------------------------------------------------------------------
\* AccFilter (procmem_access/src/util/acc_filter.rs)

\* The items of the vectors.
AccItems == {1, 2}

\* What a closure FnMut(&mut Option<T>, T) -> Option<T> can do in one call with
\* the accumulator a and the item v: return None, a or v, and leave None, a or v
\* in the accumulator (a value is moved to one place only).  "dedup" is the
\* closure of the tests.
AccFuns == {"clear", "drop", "store", "take", "replace", "pass_clear", "pass",
            "dedup"}

\* fun(&mut acc, value): the accumulator it leaves and what it returns
apply_fun(f, acc, value) ==
    CASE f = "clear"      -> [acc |-> <<>>, out |-> <<>>]
      [] f = "drop"       -> [acc |-> acc, out |-> <<>>]
      [] f = "store"      -> [acc |-> <<value>>, out |-> <<>>]
      [] f = "take"       -> [acc |-> <<>>, out |-> acc]
      [] f = "replace"    -> [acc |-> <<value>>, out |-> acc]
      [] f = "pass_clear" -> [acc |-> <<>>, out |-> <<value>>]
      [] f = "pass"       -> [acc |-> acc, out |-> <<value>>]
      [] f = "dedup"      -> IF acc = <<value>>
                               THEN [acc |-> acc, out |-> <<>>]
                               ELSE [acc |-> <<value>>, out |-> acc]

\* One round of the loop of acc_filter_vec_mut: the item at read_index is read
\* from the buffer, and what the closure returns is written at write_index.
vec_step(buf, read_index, write_index, acc, f) ==
    LET value == buf[read_index + 1]
        r == apply_fun(f, acc, value)
    IN IF r.out = <<>>
         THEN [buf |-> buf, write |-> write_index, acc |-> r.acc]
         ELSE [buf |-> [buf EXCEPT ![write_index + 1] = r.out[1]],
               write |-> write_index + 1, acc |-> r.acc]

\* the end of acc_filter_vec_mut without the write of the accumulator
vec_tail_noacc(buf, write_index, acc) ==
    [buf |-> buf, write |-> write_index, len |-> write_index]

\* The end of acc_filter_vec_mut: the accumulator is written after the values
\* kept, and the length is set to write_index.
vec_tail(buf, write_index, acc) ==
    IF acc # <<>>
      THEN [buf |-> [buf EXCEPT ![write_index + 1] = acc[1]],
            write |-> write_index + 1, len |-> write_index + 1]
      ELSE [buf |-> buf, write |-> write_index, len |-> write_index]

\* AccFilter::next: the inner iterator is advanced until the closure returns a
\* value; at its end the state is taken.
RECURSIVE iter_next(_, _, _, _)
iter_next(items, funs, i, state) ==
    IF i >= Len(items)
      THEN [i |-> i, state |-> <<>>, out |-> state]
      ELSE LET r == apply_fun(funs[i + 1], state, items[i + 1])
           IN IF r.out = <<>>
                THEN iter_next(items, funs, i + 1, r.acc)
                ELSE [i |-> i + 1, state |-> r.acc, out |-> r.out]

\* the vectors and what the closure does at each call
AccVecs == UNION {[1..n -> AccItems] : n \in 0..MaxVec}

\* acc_filter_vec_mut has reserved one slot, emptied the vector and set acc and
\* write_index; AccFilter::new holds an iterator over the same items.
AccInit ==
    /\ af_items \in AccVecs
    /\ af_funs \in [1..Len(af_items) -> AccFuns]
    /\ af_buf = af_items \o <<0>>
    /\ af_read = 0
    /\ af_write = 0
    /\ af_acc = <<>>
    /\ af_len = 0
    /\ af_pos = IF af_items = <<>> THEN "tail" ELSE "loop"
    /\ lz_i = 0
    /\ lz_state = <<>>
    /\ lz_out = <<>>
    /\ lz_done = FALSE

\* one round of `for read_index in 0..vec_len`
VecStep ==
    /\ af_pos = "loop"
    /\ LET r == vec_step(af_buf, af_read, af_write, af_acc, af_funs[af_read + 1])
       IN /\ af_buf' = r.buf
          /\ af_write' = r.write
          /\ af_acc' = r.acc
    /\ af_read' = af_read + 1
    /\ af_pos' = IF af_read + 1 = Len(af_items) THEN "tail" ELSE "loop"
    /\ UNCHANGED <<af_items, af_funs, af_len, lz_i, lz_state, lz_out, lz_done,
                   accFrame>>

\* the statements after the loop
VecTail ==
    /\ af_pos = "tail"
    /\ LET r == vec_tail(af_buf, af_write, af_acc)
       IN /\ af_buf' = r.buf
          /\ af_write' = r.write
          /\ af_len' = r.len
    /\ af_acc' = <<>>
    /\ af_pos' = "done"
    /\ UNCHANGED <<af_items, af_funs, af_read, lz_i, lz_state, lz_out, lz_done,
                   accFrame>>

\* One call of next() by collect(), which stops at the first None.  The
\* iterator shares no state with the vector and is drained after the pass.
IterNext ==
    /\ af_pos = "done"
    /\ ~lz_done
    /\ LET r == iter_next(af_items, af_funs, lz_i, lz_state)
       IN /\ lz_i' = r.i
          /\ lz_state' = r.state
          /\ lz_out' = lz_out \o r.out
          /\ lz_done' = (r.out = <<>>)
    /\ UNCHANGED <<af_items, af_funs, af_buf, af_read, af_write, af_acc, af_len,
                   af_pos, accFrame>>

AccNext == VecStep \/ VecTail \/ IterNext

AccIdle ==
    /\ af_items = <<>>
    /\ af_funs = <<>>
    /\ af_buf = <<>>
    /\ af_read = 0
    /\ af_write = 0
    /\ af_acc = <<>>
    /\ af_len = 0
    /\ af_pos = "idle"
    /\ lz_i = 0
    /\ lz_state = <<>>
    /\ lz_out = <<>>
    /\ lz_done = TRUE

----------------------------------------------------------------------------
\* Specifications

\* the scanner is idle while the lock is exercised, and the other way round
ScanIdle ==
    /\ sc_align = 1
    /\ sc_aligned = FALSE
    /\ sc_pat = <<0>>
    /\ sc_data = <<0>>
    /\ sc_base = 1
    /\ sc_cands = [s \in Scanners |-> <<>>]
    /\ sc_found = <<>>
    /\ sc_once = <<>>
    /\ sc_scanned = {}
    /\ sc_status = "ok"
    /\ sc_last = "new"
    /\ sc_asc = TRUE
    /\ sc_fresh = TRUE
    /\ sc_used = {}
    /\ sc_pre = <<>>
    /\ sc_emit = <<>>
    /\ sc_starts = 0
    /\ sc_chunk = <<1, 0>>
    /\ sc_stop = 0

FoldIdle ==
    /\ fd_init = <<>>
    /\ fd_seq = <<>>

PageIdle ==
    /\ pg_self = [start |-> 1, end |-> 2, permissions |-> 0, offset |-> 0,
                  page_type |-> "Unknown"]
    /\ pg_other = pg_self
    /\ pg_res = [ok |-> FALSE, self |-> pg_self, err |-> <<>>]
    /\ pg_called = FALSE

PageRunIdle ==
    /\ pr_init = <<>>
    /\ pr_seq = <<>>
    /\ pr_first = <<>>
    /\ pr_passes = 0

MergeIdle ==
    /\ mg_self = normal(1)
    /\ mg_other = normal(1)
    /\ mg_res = [ok |-> FALSE, self |-> mg_self, err |-> <<>>]
    /\ mg_called = FALSE

PredIdle ==
    /\ pc_offset = 1
    /\ pc_byte = 0
    /\ pc_res = <<>>
    /\ pc_called = FALSE

AccessIdle ==
    /\ ac_impl = "procfs"
    /\ ac_op = "new"
    /\ ac_len = 0
    /\ ac_done = 0
    /\ ac_res = "Ok"

LockSpecInit ==
    /\ LockInit
    /\ ScanIdle
    /\ MergeIdle
    /\ FoldIdle
    /\ PageIdle
    /\ PageRunIdle
    /\ PredIdle
    /\ AccessIdle
    /\ OffsetInit
    /\ FrontIdle
    /\ MapIdle
    /\ LineInit
    /\ CtxInit
    /\ AccIdle

ScanSpecInit ==
    /\ ScanInit
    /\ LockInit
    /\ MergeIdle
    /\ FoldIdle
    /\ PageIdle
    /\ PageRunIdle
    /\ PredIdle
    /\ AccessIdle
    /\ OffsetInit
    /\ FrontIdle
    /\ MapIdle
    /\ LineInit
    /\ CtxInit
    /\ AccIdle

CancelSpecInit ==
    /\ CancelInit
    /\ LockInit
    /\ MergeIdle
    /\ FoldIdle
    /\ PageIdle
    /\ PageRunIdle
    /\ PredIdle
    /\ AccessIdle
    /\ OffsetInit
    /\ FrontIdle
    /\ MapIdle
    /\ LineInit
    /\ CtxInit
    /\ AccIdle

MergeSpecInit ==
    /\ MergeInit
    /\ LockInit
    /\ ScanIdle
    /\ FoldIdle
    /\ PageIdle
    /\ PageRunIdle
    /\ PredIdle
    /\ AccessIdle
    /\ OffsetInit
    /\ FrontIdle
    /\ MapIdle
    /\ LineInit
    /\ CtxInit
    /\ AccIdle

FoldSpecInit ==
    /\ FoldInit
    /\ LockInit
    /\ ScanIdle
    /\ MergeIdle
    /\ PageIdle
    /\ PageRunIdle
    /\ PredIdle
    /\ AccessIdle
    /\ OffsetInit
    /\ FrontIdle
    /\ MapIdle
    /\ LineInit
    /\ CtxInit
    /\ AccIdle

PageSpecInit ==
    /\ PageInit
    /\ LockInit
    /\ ScanIdle
    /\ MergeIdle
    /\ FoldIdle
    /\ PageRunIdle
    /\ PredIdle
    /\ AccessIdle
    /\ OffsetInit
    /\ FrontIdle
    /\ MapIdle
    /\ LineInit
    /\ CtxInit
    /\ AccIdle

PageRunSpecInit ==
    /\ PageRunInit
    /\ LockInit
    /\ ScanIdle
    /\ MergeIdle
    /\ FoldIdle
    /\ PageIdle
    /\ PredIdle
    /\ AccessIdle
    /\ OffsetInit
    /\ FrontIdle
    /\ MapIdle
    /\ LineInit
    /\ CtxInit
    /\ AccIdle

PredSpecInit ==
    /\ PredInit
    /\ LockInit
    /\ MergeIdle
    /\ FoldIdle
    /\ PageIdle
    /\ PageRunIdle
    /\ AccessIdle
    /\ OffsetInit
    /\ FrontIdle
    /\ MapIdle
    /\ LineInit
    /\ CtxInit
    /\ AccIdle

AccessSpecInit ==
    /\ AccessInit
    /\ LockInit
    /\ ScanIdle
    /\ MergeIdle
    /\ FoldIdle
    /\ PageIdle
    /\ PageRunIdle
    /\ PredIdle
    /\ OffsetInit
    /\ FrontIdle
    /\ MapIdle
    /\ LineInit
    /\ CtxInit
    /\ AccIdle

OffsetSpecInit ==
    /\ OffsetInit
    /\ LockInit
    /\ ScanIdle
    /\ MergeIdle
    /\ FoldIdle
    /\ PageIdle
    /\ PageRunIdle
    /\ PredIdle
    /\ AccessIdle
    /\ FrontIdle
    /\ MapIdle
    /\ LineInit
    /\ CtxInit
    /\ AccIdle

FrontSpecInit ==
    /\ FrontInit
    /\ MergeIdle
    /\ FoldIdle
    /\ PageIdle
    /\ PageRunIdle
    /\ PredIdle
    /\ AccessIdle
    /\ OffsetInit
    /\ MapIdle
    /\ LineInit
    /\ CtxInit
    /\ AccIdle

HighSpecInit ==
    /\ HighInit
    /\ LockInit
    /\ MergeIdle
    /\ FoldIdle
    /\ PageIdle
    /\ PageRunIdle
    /\ PredIdle
    /\ AccessIdle
    /\ OffsetInit
    /\ FrontIdle
    /\ MapIdle
    /\ LineInit
    /\ CtxInit
    /\ AccIdle

MapSpecInit ==
    /\ MapInit
    /\ LockInit
    /\ ScanIdle
    /\ MergeIdle
    /\ FoldIdle
    /\ PageIdle
    /\ PageRunIdle
    /\ PredIdle
    /\ AccessIdle
    /\ OffsetInit
    /\ FrontIdle
    /\ LineInit
    /\ CtxInit
    /\ AccIdle

LineSpecInit ==
    /\ LineInit
    /\ LockInit
    /\ ScanIdle
    /\ MergeIdle
    /\ FoldIdle
    /\ PageIdle
    /\ PageRunIdle
    /\ PredIdle
    /\ AccessIdle
    /\ OffsetInit
    /\ FrontIdle
    /\ MapIdle
    /\ CtxInit
    /\ AccIdle

CtxSpecInit ==
    /\ CtxInit
    /\ LockInit
    /\ ScanIdle
    /\ MergeIdle
    /\ FoldIdle
    /\ PageIdle
    /\ PageRunIdle
    /\ PredIdle
    /\ AccessIdle
    /\ OffsetInit
    /\ FrontIdle
    /\ MapIdle
    /\ LineInit
    /\ AccIdle

AccSpecInit ==
    /\ AccInit
    /\ LockInit
    /\ ScanIdle
    /\ MergeIdle
    /\ FoldIdle
    /\ PageIdle
    /\ PageRunIdle
    /\ PredIdle
    /\ AccessIdle
    /\ OffsetInit
    /\ FrontIdle
    /\ MapIdle
    /\ LineInit
    /\ CtxInit

SpecLock == LockSpecInit /\ [][LockNext]_vars

SpecScan == ScanSpecInit /\ [][ScanNext]_vars

SpecScanCalls == ScanSpecInit /\ [][ScanCallsNext]_vars

SpecMultiScan == ScanSpecInit /\ [][MultiScanNext]_vars

SpecScanCancel == CancelSpecInit /\ [][ScanCancelNext]_vars

SpecMerge == MergeSpecInit /\ [][MergeNext]_vars

SpecFold == FoldSpecInit /\ [][FoldNext]_vars

SpecPage == PageSpecInit /\ [][PageNext]_vars

SpecPageRun == PageRunSpecInit /\ [][PageRunNext]_vars

SpecPred == PredSpecInit /\ [][PredNext]_vars

SpecAccess == AccessSpecInit /\ [][AccessNext]_vars

SpecOffset == OffsetSpecInit /\ [][OffsetNext]_vars

SpecFront == FrontSpecInit /\ [][FrontNext]_vars

SpecCtx == CtxSpecInit /\ [][CtxNext]_vars

SpecAcc == AccSpecInit /\ [][AccNext]_vars

SpecLine == LineSpecInit /\ [][LineNext]_vars

SpecMap == MapSpecInit /\ [][MapNext]_vars

SpecScanBytes == ScanSpecInit /\ [][ScanBytesNext]_vars

SpecScanHigh == HighSpecInit /\ [][ScanHighNext]_vars

----------------------------------------------------------------------------
\* Properties of the PtraceLock

C5_Lock ==
    (lk_op = "lock") =>
        /\ (lk_pre = 0) =>
              /\ lk_calls = <<"stop">>
              /\ lk_res \in {"OkTrue", "PlatformError"}
              /\ (lk_res = "OkTrue") => (target_stopped /\ lock_counter = 1)
        /\ (lk_pre > 0 /\ lk_pre # usize_MAX) =>
              /\ lock_counter = lk_pre + 1
              /\ lk_res = "OkFalse"
              /\ lk_calls = <<>>
              /\ target_stopped = lk_pre_stopped

C5_Witness ==
    /\ lk_op = "lock" /\ lk_pre = 2 /\ lock_counter = 3
    /\ lk_res = "OkFalse" /\ target_stopped /\ ~lk_platfail

\* the three cases of unlock()
UnlockCases ==
    (lk_op = "unlock") =>
        /\ (lk_pre = 0) =>
              /\ lk_res = "NotLocked" /\ lock_counter = 0
              /\ lk_calls = <<>> /\ target_stopped = lk_pre_stopped
        /\ (lk_pre = 1 \/ lk_pre = usize_MAX) =>
              /\ lk_calls = <<"cont">>
              /\ lk_res \in {"OkTrue", "PlatformError"}
              /\ (lk_res = "OkTrue") => (~target_stopped /\ lock_counter = 0)
        /\ (lk_pre > 1 /\ lk_pre # usize_MAX) =>
              /\ lock_counter = lk_pre - 1 /\ lk_res = "OkFalse"
              /\ lk_calls = <<>> /\ target_stopped = lk_pre_stopped

\* C6: unlock() behaves by its three cases, and k recursive lock() calls are
\* released only by k unlock() calls: an unlock() releases the target only
\* when no other successful recursive lock() is still outstanding.
C6_Unlock ==
    /\ UnlockCases
    /\ (lk_op = "unlock" /\ lk_res = "OkTrue") => lk_recursive = 0

\* C7: lock_exlusive() succeeds only from counter 0, leaving the target frozen
\* and the counter at the sentinel; with a positive counter it fails with
\* AlreadyLocked and changes neither the counter nor the target.
C7_LockExclusive ==
    (lk_op = "lock_exlusive") =>
        /\ (lk_res = "Ok") =>
              (lk_pre = 0 /\ target_stopped /\ lock_counter = usize_MAX)
        /\ (lk_pre = 0) => lk_res \in {"Ok", "PlatformError"}
        /\ (lk_pre > 0) =>
              /\ lk_res = "AlreadyLocked"
              /\ lock_counter = lk_pre
              /\ target_stopped = lk_pre_stopped
              /\ lk_calls = <<>>

\* both cases have happened: a refusal while recursively locked
C7_Witness ==
    /\ lk_op = "lock_exlusive" /\ lk_res = "AlreadyLocked"
    /\ lk_pre = 2 /\ lock_counter = 2 /\ target_stopped

\* C8: no lock() call brings the counter to the exclusive sentinel; the lock()
\* that would do so fails with AlreadyLocked.
C8_SentinelOnlyExclusive ==
    (lk_op = "lock" /\ lk_pre # usize_MAX) =>
        /\ lock_counter # usize_MAX
        /\ (lk_pre = usize_MAX - 1) => lk_res = "AlreadyLocked"

\* C9: in the exclusive state lock() (and lock_exlusive()) fails with
\* AlreadyLocked, admits no recursive holder and leaves the counter at the
\* sentinel; only unlock() leaves the exclusive state of a living lock.
C9_ExclusiveExcludes ==
    /\ (lk_op \in {"lock", "lock_exlusive"} /\ lk_pre = usize_MAX) =>
          /\ lk_res = "AlreadyLocked"
          /\ lock_counter = usize_MAX
          /\ lk_calls = <<>>
          /\ target_stopped = lk_pre_stopped
    /\ (lk_state = "alive" /\ lk_pre = usize_MAX /\ lock_counter # usize_MAX) =>
          (lk_op = "unlock" /\ lock_counter = 0)

\* a lock() was refused while the lock was held exclusively
C9_Witness ==
    /\ lk_op = "lock" /\ lk_pre = usize_MAX /\ lk_res = "AlreadyLocked"
    /\ lk_recursive = 0 /\ target_stopped /\ ~lk_platfail

\* C10: dropping the lock attempts the detach, and a failed detach does not
\* escape from drop.
C10_DropSwallowsFailure ==
    (lk_op = "drop") => (\E i \in DOMAIN lk_calls : lk_calls[i] = "detach") /\ lk_res # "Panic"

----------------------------------------------------------------------------
\* Properties of the StreamScanner

Range(seq) == {seq[i] : i \in DOMAIN seq}

Count(seq, x) == Cardinality({i \in DOMAIN seq : seq[i] = x})

\* the same matches, each the same number of times
SameMatches(a, b) == \A x \in Range(a) \cup Range(b) : Count(a, x) = Count(b, x)

\* the pattern occurs in full at index p of the memory, at a legal offset
Occurs(p) ==
    /\ p \in 1..(Len(sc_data) - Len(sc_pat) + 1)
    /\ \A k \in 1..Len(sc_pat) : sc_data[p + k - 1] = sc_pat[k]
    /\ ~sc_aligned \/ (sc_base + p - 1) % sc_align = 0

\* scan_once over the whole memory on a new scanner
WholeScan == scan_once(<<>>, sc_base, sc_data)

\* C1: chunks of a partition fed in ascending order to scan_partial on one
\* scanner that starts empty, then resolve_partial, report the matches that
\* scan_once reports over the whole memory (and fail only where it fails).
C1_PartitionEquivalence ==
    (sc_fresh /\ sc_asc /\ sc_last \in {"scan_partial", "resolve_partial"}) =>
        /\ (sc_status = "panic") => WholeScan.panic
        /\ (sc_last = "resolve_partial") => SameMatches(sc_found, WholeScan.found)

\* C2: the chunks scanned in any order, on one scanner or on several that are
\* then merged into one, and resolved, report the matches that scan_once
\* reports over the whole memory.
C2_OrderIndependence ==
    (sc_fresh /\ sc_last \in {"scan_partial", "merge_mut", "resolve_partial"}) =>
        /\ (sc_status = "panic") => WholeScan.panic
        /\ (sc_last = "resolve_partial" /\ Cardinality(sc_used) = 1) =>
              SameMatches(sc_found, WholeScan.found)

\* C3: scan_once reports every occurrence of the pattern at a legal offset
\* exactly once, overlapping and adjacent occurrences included.
C3_Completeness ==
    (sc_last = "scan_once") =>
        \A p \in 1..Len(sc_data) :
            Occurs(p) => Count(sc_once, <<sc_base + p - 1, Len(sc_pat)>>) = 1

\* the pattern's bytes are in the memory at index p, whatever the offset
RawOccurs(p) ==
    /\ p \in 1..(Len(sc_data) - Len(sc_pat) + 1)
    /\ \A k \in 1..Len(sc_pat) : sc_data[p + k - 1] = sc_pat[k]

\* C11: with aligned = true, every match reported by scan_once, by
\* scan_partial or by the resolution of the partial candidates has an offset
\* that is a multiple of the value type's alignment.
C11_AlignmentRespect ==
    sc_aligned =>
        \A m \in Range(sc_once) \cup Range(sc_found) : m[1] % sc_align = 0

\* an aligned predicate has reported a match from partial scans of a memory
\* that also holds the pattern at an offset that is not aligned
C11_Witness ==
    /\ sc_aligned /\ sc_align = 2
    /\ sc_found # <<>>
    /\ \E p \in 1..Len(sc_data) : RawOccurs(p) /\ (sc_base + p - 1) % sc_align # 0

\* C12: with a pattern of one byte, scan_once reports (offset, 1) for every
\* matching byte at a legal offset at once: the candidate that is resolved on
\* birth never enters the live candidate set and is never passed to
\* update_candidate (where it would break the assertion on its length).
C12_SingleByte ==
    (Len(sc_pat) = 1 /\ sc_last = "scan_once") =>
        /\ sc_status = "ok"
        /\ \A i \in DOMAIN sc_cands[1] : ~sc_cands[1][i].resolved
        /\ \A p \in 1..Len(sc_data) :
              Occurs(p) => <<sc_base + p - 1, 1>> \in Range(sc_once)

\* C13: when scan_once has consumed its whole stream the candidate set of the
\* scanner is empty: a candidate left unresolved in the middle of the pattern
\* is discarded.
C13_ScanOnceLeavesNothing ==
    (sc_last = "scan_once" /\ sc_status = "ok") => sc_cands[1] = <<>>

\* C14: scan_once does not detect across calls: what it reports, whether it
\* fails and the candidates it leaves depend only on the predicate, the start
\* offset and the stream, whatever scan_once and scan_partial calls were made
\* on the scanner before.
C14_ScanOnceIndependent ==
    (sc_last = "scan_once") =>
        /\ sc_once = WholeScan.found
        /\ sc_cands[1] = WholeScan.candidates
        /\ (sc_status = "panic") = WholeScan.panic

\* scan_once has run on a scanner that held a candidate ending inside the
\* scanned range, which the next byte would have continued
C14_Witness ==
    /\ sc_last = "scan_once" /\ sc_status = "ok"
    /\ \E i \in DOMAIN sc_pre :
          /\ ~sc_pre[i].resolved
          /\ end_offset(sc_pre[i]) \in sc_base..(sc_base + Len(sc_data) - 1)
          /\ sc_data[end_offset(sc_pre[i]) - sc_base + 1] = sc_pat[sc_pre[i].length + 1]

\* the offsets of the bytes given to the last scan_partial
ChunkOffsets == {sc_base + i - 1 : i \in sc_chunk[1]..sc_chunk[2]}

\* the bytes from index p to the end of the last chunk are a proper prefix of
\* the pattern, starting at a legal offset
OpenAt(p) ==
    /\ p \in sc_chunk[1]..sc_chunk[2]
    /\ sc_chunk[2] - p + 1 < Len(sc_pat)
    /\ \A k \in 1..(sc_chunk[2] - p + 1) : sc_data[p + k - 1] = sc_pat[k]
    /\ ~sc_aligned \/ (sc_base + p - 1) % sc_align = 0

\* C15: scan_partial never clears the candidate set. Candidates held before
\* the call that do not end where a scanned byte lies are still there,
\* unmodified; a candidate still unresolved at the end of the sequence is
\* kept; on_start (try_start_partial_candidates) is called once, on the first
\* byte only, and not at all for an empty sequence.
C15_ScanPartialKeeps ==
    (sc_last = "scan_partial") =>
        /\ \A c \in Range(sc_pre) :
              end_offset(c) \notin ChunkOffsets =>
                  Count(sc_cands[1], c) >= Count(sc_pre, c)
        /\ sc_starts = IF sc_chunk[2] < sc_chunk[1] THEN 0 ELSE 1
        /\ sc_chunk[2] < sc_chunk[1] => sc_cands[1] = sc_pre /\ sc_emit = <<>>
        /\ sc_status = "ok" =>
              /\ \A p \in 1..Len(sc_data) :
                    OpenAt(p) =>
                        [offset |-> sc_base + p - 1, length |-> sc_chunk[2] - p + 1,
                         resolved |-> FALSE, start_offset |-> None]
                            \in Range(sc_cands[1])
              /\ \A c \in Range(sc_cands[1]) :
                    (is_partial(c) /\ \A d \in Range(sc_pre) :
                        d.offset # c.offset \/ d.start_offset # c.start_offset)
                    => c.start_offset = sc_base + sc_chunk[1] - 1

\* a partial scan of a non-empty chunk on a scanner that held a candidate away
\* from the chunk, ending with a candidate in the middle of the pattern
C15_Witness ==
    /\ sc_last = "scan_partial" /\ sc_status = "ok"
    /\ sc_chunk[1] <= sc_chunk[2]
    /\ \E c \in Range(sc_pre) : end_offset(c) \notin ChunkOffsets
    /\ \E p \in 1..Len(sc_data) : OpenAt(p)

\* C16: merging the partial state of another scanner into a scanner
\* (merge_mut) terminates normally, leaving the scanner as if the other
\* scanner's scans had been run on it.
C16_MergeTerminates ==
    (sc_last = "merge_mut") => sc_status = "ok"

\* the definitely matched ranges [start, end) of two candidates of the same
\* offset intersect or touch
Touch(a, b) ==
    LET sa == IF a.start_offset = None THEN a.offset ELSE a.start_offset
        sb == IF b.start_offset = None THEN b.offset ELSE b.start_offset
    IN  /\ a.offset = b.offset
        /\ sa <= b.offset + b.length
        /\ sb <= a.offset + a.length

\* C17: resolve_partial sorts the candidates and folds them through the merge
\* operator. It yields exactly the merged candidates that are non-partial and
\* resolved, in ascending (offset, length) order, removes them, and keeps every
\* other merged candidate; a second call in a row yields nothing.
C17_ResolvePartial ==
    /\ (sc_last = "resolve_partial") =>
        \* ascending order of the yields
        /\ \A i, j \in DOMAIN sc_emit :
              i < j => \/ sc_emit[i][1] < sc_emit[j][1]
                       \/ sc_emit[i][1] = sc_emit[j][1] /\ sc_emit[i][2] <= sc_emit[j][2]
        \* a yield comes from a resolved and from a non-partial candidate
        /\ \A m \in Range(sc_emit) :
              /\ \E c \in Range(sc_pre) : c.offset = m[1] /\ c.resolved
              /\ \E c \in Range(sc_pre) : c.offset = m[1] /\ ~is_partial(c)
              /\ \E c \in Range(sc_pre) : c.offset = m[1] /\ c.length = m[2]
        \* what merges into a non-partial resolved candidate is yielded
        /\ \A a, b \in Range(sc_pre) :
              (~is_partial(a) /\ b.resolved /\ Touch(a, b)) =>
                  \E m \in Range(sc_emit) : m[1] = a.offset /\ m[2] >= b.length
        \* yielded candidates are removed, the others are kept, merged
        /\ \A c \in Range(sc_cands[1]) : is_partial(c) \/ ~c.resolved
        /\ \A i, j \in DOMAIN sc_cands[1] :
              i # j => ~Touch(sc_cands[1][i], sc_cands[1][j])
        /\ \A c \in Range(sc_pre) :
              \/ \E m \in Range(sc_emit) : m[1] = c.offset /\ m[2] >= c.length
              \/ \E d \in Range(sc_cands[1]) : d.offset = c.offset /\ d.length >= c.length
    /\ (sc_last = "resolve_partial_again") =>
        sc_emit = <<>> /\ sc_cands[1] = sc_pre

\* a resolution that merged a candidate of an earlier chunk with a partial
\* candidate of a later one into a match, and kept another candidate
C17_Witness ==
    /\ sc_last = "resolve_partial"
    /\ sc_emit # <<>>
    /\ sc_cands[1] # <<>>
    /\ Len(sc_pre) > Len(sc_emit) + Len(sc_cands[1])
    /\ \E c \in Range(sc_pre) : is_partial(c) /\ c.resolved

\* C18: within one scan the matches are reported in the order in which their
\* last byte is consumed: the reported sequence is non-decreasing in end
\* offset (offset + length).
C18_EmissionOrder ==
    (sc_last \in {"scan_once", "scan_partial"}) =>
        \A i, j \in DOMAIN sc_emit :
            i < j => sc_emit[i][1] + sc_emit[i][2] <= sc_emit[j][1] + sc_emit[j][2]

\* one scan has reported two matches
C18_Witness ==
    /\ sc_last \in {"scan_once", "scan_partial"}
    /\ Len(sc_emit) >= 2

----------------------------------------------------------------------------
\* Properties of ScannerCandidate::try_merge_mut

\* C19: try_merge_mut succeeds if and only if the two candidates have the same
\* offset and their definitely matched ranges [start_offset, end_offset)
\* intersect or touch; when it fails it returns other unchanged and leaves
\* self unchanged in every field.
C19_MergeCondition ==
    mg_called =>
        /\ mg_res.ok <=> Touch(mg_self, mg_other)
        /\ ~mg_res.ok => mg_res.self = mg_self /\ mg_res.err = <<mg_other>>

\* a merge of two candidates whose ranges only touch: other starts where self
\* ends
C19_Witness ==
    /\ mg_called /\ mg_res.ok
    /\ mg_self.offset = mg_other.offset
    /\ mg_other.start_offset = mg_self.offset + mg_self.length

\* C20: a successful merge yields the common offset, the larger of the two
\* lengths, the logical OR of the two resolved flags and the smaller of the
\* two start offsets; the merged candidate is non-partial exactly when its
\* start offset has collapsed to its offset, which is the case whenever one of
\* the inputs is non-partial.
C20_MergeResult ==
    (mg_called /\ mg_res.ok) =>
        /\ mg_res.self.offset = mg_self.offset
        /\ mg_res.self.offset = mg_other.offset
        /\ mg_res.self.length = Max(mg_self.length, mg_other.length)
        /\ mg_res.self.resolved = (mg_self.resolved \/ mg_other.resolved)
        /\ start_offset(mg_res.self) = Min(start_offset(mg_self), start_offset(mg_other))
        /\ ~is_partial(mg_res.self) <=> start_offset(mg_res.self) = mg_res.self.offset
        /\ (~is_partial(mg_self) \/ ~is_partial(mg_other)) => ~is_partial(mg_res.self)

----------------------------------------------------------------------------
\* Properties of merging a sorted run of candidates

\* no two neighbours of the run can be merged any more
FoldDone == \A i \in 1..(Len(fd_seq) - 1) : ~can_merge(fd_seq[i], fd_seq[i + 1])

\* C21: for a sorted collection of candidates sharing one offset, merging
\* neighbours pair by pair until nothing more merges gives the same final
\* candidates whatever the order (grouping) of the merges, and these are the
\* output of merge_sorted over the collection.
C21_MergeAssociative == FoldDone => fd_seq = merge_sorted(fd_init)

\* a run of three merged into one candidate, in which the last two only merge
\* once the first two have been merged
C21_Witness ==
    /\ Len(fd_init) = 3
    /\ Len(fd_seq) = 1
    /\ can_merge(fd_init[1], fd_init[2])
    /\ ~can_merge(fd_init[2], fd_init[3])

----------------------------------------------------------------------------
\* Properties of the candidates a scanner holds

\* the invariants of one candidate
CandidateInv(c) ==
    /\ c.length >= 1
    /\ end_offset(c) = Min(c.offset + c.length, usize_MAX)
    /\ is_partial(c) =>
          /\ c.offset < c.start_offset
          /\ c.start_offset <= c.offset + c.length

\* the candidates the scanner holds, or held before its last call
LiveCandidates == Range(sc_cands[1]) \cup Range(sc_pre)

----------------------------------------------------------------------------
\* Properties of MemoryPage::try_merge_mut

\* C23: MemoryPage::try_merge_mut(A, B) succeeds if and only if the two
\* address ranges touch or overlap (A.end >= B.start and B.end >= A.start),
\* whichever page comes first; when it fails it returns B and leaves A
\* unchanged.
C23_PageMergeCondition ==
    pg_called =>
        /\ pg_res.ok <=> (pg_self.end >= pg_other.start /\ pg_other.end >= pg_self.start)
        /\ pg_res.ok <=> page_try_merge(pg_other, pg_self).ok
        /\ ~pg_res.ok => pg_res.self = pg_self /\ pg_res.err = <<pg_other>>

\* a successful merge of two pages that only touch, self being the later one
C23_Witness ==
    /\ pg_called /\ pg_res.ok
    /\ pg_other.end = pg_self.start

\* C24: a successful merge of A and B has the range
\* [min(A.start, B.start), max(A.end, B.end)), permissions that are the
\* bitwise AND of both (no flag is set that is not set in both), the file
\* offset min(A.offset, B.offset), and A's page type if both types are equal,
\* Unknown otherwise.
C24_PageMergeResult ==
    (pg_called /\ pg_res.ok) =>
        /\ pg_res.self.start = Min(pg_self.start, pg_other.start)
        /\ pg_res.self.end = Max(pg_self.end, pg_other.end)
        /\ \A m \in {MASK_READ, MASK_WRITE, MASK_EXEC, MASK_SHARE} :
              (pg_res.self.permissions \div m) % 2 = 1
                  <=> /\ (pg_self.permissions \div m) % 2 = 1
                      /\ (pg_other.permissions \div m) % 2 = 1
        /\ pg_res.self.permissions < 2 * MASK_SHARE
        /\ pg_res.self.offset = Min(pg_self.offset, pg_other.offset)
        /\ pg_res.self.page_type =
              IF pg_self.page_type = pg_other.page_type THEN pg_self.page_type
              ELSE "Unknown"

\* a merge of two pages of different types and permissions, the second with
\* the smaller file offset
C24_Witness ==
    /\ pg_called /\ pg_res.ok
    /\ pg_self.page_type # pg_other.page_type /\ pg_self.page_type # "Unknown"
    /\ pg_res.self.permissions # pg_self.permissions
    /\ pg_res.self.permissions # pg_other.permissions
    /\ pg_other.offset < pg_self.offset

----------------------------------------------------------------------------
\* Properties of MemoryPage::merge_sorted

\* C25: for any page sequence S sorted by start address,
\* merge_sorted(merge_sorted(S)) equals merge_sorted(S); in particular no two
\* consecutive pages of merge_sorted(S) touch or overlap.
C25_PageMergeIdempotent ==
    /\ pr_passes = 2 => pr_seq = pr_first
    /\ pr_passes >= 1 =>
          \A i \in 1..(Len(pr_seq) - 1) :
              ~(/\ pr_seq[i].end >= pr_seq[i + 1].start
                /\ pr_seq[i + 1].end >= pr_seq[i].start)

\* a second pass over the two pages left by a first pass that merged pages
C25_Witness ==
    /\ pr_passes = 2
    /\ Len(pr_init) = 3
    /\ Len(pr_seq) = 2

\* the addresses inside the pages of a sequence
Covered(seq) == {a \in 1..(MaxAddr + 1) : \E i \in 1..Len(seq) : seq[i].start <= a /\ a < seq[i].end}

\* the bitwise AND of the permissions of the pages seq[i], i in I
RECURSIVE AndFrom(_, _, _)
AndFrom(seq, I, i) ==
    IF i > Len(seq) THEN permissions_new(TRUE, TRUE, TRUE, TRUE)
    ELSE IF i \in I THEN bitand(seq[i].permissions, AndFrom(seq, I, i + 1))
         ELSE AndFrom(seq, I, i + 1)

AndOver(seq, I) == AndFrom(seq, I, 1)

\* the input pages that cover address a
Covering(a) == {i \in 1..Len(pr_init) : pr_init[i].start <= a /\ a < pr_init[i].end}

\* the input pages that lie inside page q
Inside(q) == {i \in 1..Len(pr_init) : q.start <= pr_init[i].start /\ pr_init[i].end <= q.end}

\* C26 (as stated): for any sorted page sequence S, the union of the byte
\* ranges of merge_sorted(S) equals the union of the byte ranges of S, and for
\* every address covered by several input pages the permissions of the output
\* page covering it are the pointwise AND of the permissions of exactly those
\* input pages.
C26_PageMergeCoverage ==
    pr_passes = 1 =>
        /\ Covered(pr_seq) = Covered(pr_init)
        /\ \A a \in Covered(pr_init) :
              Cardinality(Covering(a)) >= 2 =>
                  \A j \in 1..Len(pr_seq) :
                      (pr_seq[j].start <= a /\ a < pr_seq[j].end) =>
                          pr_seq[j].permissions = AndOver(pr_init, Covering(a))

\* C26 (amended): the union of the byte ranges of merge_sorted(S) equals the
\* union of the byte ranges of S, every input page lies inside exactly one
\* output page, and the permissions of an output page are the bitwise AND of
\* the permissions of all the input pages inside it; so at every address the
\* output page sets no flag that some input page covering the address lacks.
C26_PageMergeCoverageRun ==
    pr_passes = 1 =>
        /\ Covered(pr_seq) = Covered(pr_init)
        /\ \A i \in 1..Len(pr_init) :
              Cardinality({j \in 1..Len(pr_seq) : i \in Inside(pr_seq[j])}) = 1
        /\ \A j \in 1..Len(pr_seq) :
              /\ pr_seq[j].permissions = AndOver(pr_init, Inside(pr_seq[j]))
              /\ \A a \in pr_seq[j].start..(pr_seq[j].end - 1) :
                    bitand(pr_seq[j].permissions, AndOver(pr_init, Covering(a)))
                        = pr_seq[j].permissions

\* two overlapping pages of equal permissions merged with a third page that
\* touches them and has fewer permissions: the output page has lost a flag at
\* an address that only the first two cover
C26_Witness ==
    /\ pr_passes = 1
    /\ Len(pr_init) = 3 /\ Len(pr_seq) = 1
    /\ \E a \in Covered(pr_init) :
          /\ Covering(a) = {1, 2}
          /\ pr_seq[1].permissions # AndOver(pr_init, Covering(a))

----------------------------------------------------------------------------
\* Properties of ValuePredicate::try_start_partial_candidates

\* pattern position i (counted from 0) is a legal start for the byte at the
\* given offset
LegalPosition(i) ==
    /\ sc_pat[i + 1] = pc_byte
    /\ pc_offset - i > 0
    /\ sc_aligned => (pc_offset - i) % sc_align = 0

\* the candidate the position stands for
PositionCandidate(i) ==
    [offset |-> pc_offset - i, length |-> i + 1,
     resolved |-> (i + 1 = Len(sc_pat)), start_offset |-> pc_offset]

\* C27: try_start_partial_candidates(offset, byte) returns exactly one
\* candidate for each pattern position i >= 1 with pattern[i] = byte such that
\* offset - i is positive and, when aligned, a multiple of the alignment, and
\* no other candidate; each returned candidate has offset = offset - i,
\* length = i + 1, is partial with start offset equal to the given offset, and
\* is resolved if and only if i + 1 = len(pattern).
C27_PartialCandidates ==
    pc_called =>
        /\ \A i \in 1..(Len(sc_pat) - 1) :
              LegalPosition(i) => Count(pc_res, PositionCandidate(i)) = 1
        /\ \A c \in Range(pc_res) :
              /\ is_partial(c) /\ start_offset(c) = pc_offset
              /\ \E i \in 1..(Len(sc_pat) - 1) :
                    LegalPosition(i) /\ c = PositionCandidate(i)

\* a call whose byte stands at two positions of the pattern, of which only the
\* nearer one starts at a positive offset: one unresolved candidate is returned
C27_Witness ==
    /\ pc_called
    /\ Len(pc_res) = 1
    /\ Len(sc_pat) = 3 /\ sc_pat[2] = pc_byte /\ sc_pat[3] = pc_byte
    /\ ~pc_res[1].resolved

----------------------------------------------------------------------------
\* Properties of MemoryAccess

\* C28: read(offset, buffer) returns success only if the whole buffer was
\* filled from the target, and write(offset, bytes) returns success only if
\* all bytes were written; a transfer shorter than requested is reported as an
\* error, never as a successful short read or write.
C28_AllOrError ==
    (ac_op \in {"read", "write"} /\ ac_res = "Ok") => ac_done = ac_len

----------------------------------------------------------------------------
\* Properties of OffsetType

\* C30: an offset is never zero, and saturating_add(rhs) returns
\* min(value + rhs, MAX): it never wraps around to zero or to an address
\* smaller than the original value.
C30_OffsetSaturates ==
    /\ of_val # <<>> => of_val[1] # 0
    /\ of_op = "saturating_add" =>
          /\ of_val # <<>>
          /\ of_val[1] = Min(of_prev + of_rhs, usize_MAX)
          /\ of_val[1] >= of_prev

\* an addition that went past the largest address
C30_Witness ==
    /\ of_op = "saturating_add"
    /\ of_prev + of_rhs > usize_MAX
    /\ of_prev < usize_MAX
    /\ of_val = <<usize_MAX>>

----------------------------------------------------------------------------
\* Properties of a cancelled scan

\* the callback has returned false in the last call
Cancelled ==
    /\ sc_stop > 0
    /\ sc_status = "ok"
    /\ sc_last \in {"scan_once", "scan_partial"}
    /\ Len(sc_emit) = sc_stop

\* the address and the index of the byte at which the last reported match
\* ended
CancelAddr == sc_emit[Len(sc_emit)][1] + sc_emit[Len(sc_emit)][2] - 1

CancelIndex == CancelAddr - sc_base + 1

\* the candidates that were live when the byte of the cancellation was read:
\* those the call leaves when it only gets the bytes before that one
LiveAtCancel ==
    IF sc_last = "scan_once"
    THEN scan_once(sc_pre, sc_base, SubSeq(sc_data, 1, CancelIndex - 1)).candidates
    ELSE IF CancelIndex = sc_chunk[1]
         THEN on_start(sc_pre, CancelAddr, sc_data[CancelIndex])
         ELSE scan_partial(sc_pre, saturating_add(sc_base, sc_chunk[1] - 1),
                           SubSeq(sc_data, sc_chunk[1], CancelIndex - 1)).candidates

\* C29: when the consumer stops a scan early (the callback returns false), no
\* further match is reported by that call, and the candidates that were live
\* at that moment remain in the scanner, but for those the byte removed or
\* reported, so that the partial-scan state can still be merged and resolved
\* afterwards.
C29_Cancellation ==
    /\ sc_stop > 0 => Len(sc_emit) <= sc_stop
    /\ Cancelled =>
          \A c \in Range(LiveAtCancel) :
              \/ c \in Range(sc_cands[1])
              \/ advance(c) \in Range(sc_cands[1])
              \/ /\ end_offset(c) = CancelAddr
                 /\ ~(c.resolved /\ is_partial(c))
                 /\ update_candidate(CancelAddr, sc_data[CancelIndex], c)
                        \in {"Remove", "Resolve"}

\* a partial scan stopped by its callback before the end of its chunk, with
\* candidates left in the scanner
C29_Witness ==
    /\ Cancelled
    /\ sc_last = "scan_partial"
    /\ CancelIndex < sc_chunk[2]
    /\ sc_cands[1] # <<>>

----------------------------------------------------------------------------
\* Properties of the front ends

\* the offsets inside page i where the value lies
FrontOccurs(i) ==
    {fe_pages[i].start + k : k \in {j \in 0..(Len(fe_pages[i].data) - Len(sc_pat)) :
        \A n \in 1..Len(sc_pat) : fe_pages[i].data[j + n] = sc_pat[n]}}

\* C31: in a scan over several pages by a front end, a page whose read fails
\* is skipped and nothing more: every page whose read does not fail is read
\* and scanned, and every occurrence of the value in such a page is reported
\* (in the REPL: every occurrence the earlier scans have not ruled out).
C31_FailedPageSkipped ==
    (fe_op \in {"scan_exact", "main"} /\ fe_why \in {"none", "memory"}
        /\ fe_res # "Panic")
    => \A i \in (1..Len(fe_pages)) \ fe_failed :
           /\ i \in fe_scanned
           /\ \A o \in FrontOccurs(i) : (fe_prev = {} \/ o \in fe_prev) => o \in fe_out

\* C38: a call of scan_exact, read or write on the REPL App or the Python
\* object that returns (with success, on an invalid argument, or on a failed
\* memory read or write) leaves the lock counter at its value on entry.
C38_LockBalanced ==
    (fe_op \in {"scan_exact", "read", "write"}
        /\ fe_why \in {"none", "argument", "memory"} /\ fe_res # "Panic")
    => lock_counter = fe_entry

----------------------------------------------------------------------------
\* Soundness of scan_once

\* the stream lies inside the address space: its last byte has an address
StreamInSpace == sc_base + Len(sc_data) - 1 <= usize_MAX

\* the match <<o, l>> is the pattern, found in the stream at offset o
SoundMatch(m) ==
    /\ m[2] = Len(sc_pat)
    /\ m[1] >= sc_base
    /\ m[1] + m[2] <= sc_base + Len(sc_data)
    /\ \A n \in 1..m[2] :
         /\ m[1] - sc_base + n \in 1..Len(sc_data)
         /\ sc_data[m[1] - sc_base + n] = sc_pat[n]

\* C32 as stated: every match scan_once reports has the length of the
\* pattern, lies inside the scanned range and covers bytes equal to the
\* pattern, also for a stream whose offsets saturate at the maximum address.
C32_Soundness ==
    sc_last = "scan_once" => \A k \in 1..Len(sc_once) : SoundMatch(sc_once[k])

\* C32 as amended: the same for every stream that lies inside the address
\* space, the offset after its last byte being the only one that saturates.
C32_SoundnessInSpace ==
    (sc_last = "scan_once" /\ StreamInSpace)
    => \A k \in 1..Len(sc_once) : SoundMatch(sc_once[k])

\* a match that ends in the last byte of the address space was reported
C32_Witness ==
    /\ sc_last = "scan_once"
    /\ StreamInSpace
    /\ \E k \in 1..Len(sc_once) : sc_once[k][1] + sc_once[k][2] - 1 = usize_MAX

----------------------------------------------------------------------------
\* The candidates a byte leaves alone

\* the offset of the byte last handed to on_byte
ByteOffset == saturating_add(sc_base, sc_chunk[2] - 1)

\* a can be had from b by leaving elements of b out
RECURSIVE IsSubSeq(_, _)
IsSubSeq(a, b) ==
    IF a = <<>> THEN TRUE
    ELSE IF b = <<>> THEN FALSE
    ELSE IF Head(a) = Head(b) THEN IsSubSeq(Tail(a), Tail(b))
    ELSE IsSubSeq(a, Tail(b))

C34_UpdatePrecondition ==
    sc_last = "on_byte"
    => \A c \in Range(sc_pre) :
           end_offset(c) = ByteOffset => (~c.resolved /\ c.length < Len(sc_pat))

----------------------------------------------------------------------------
\* Properties of the memory map

\* C35: the lookup by containing offset returns a page p only if
\* p.start <= offset < p.end, returns nothing when no page contains the
\* offset, and at the common boundary of two adjacent pages returns the page
\* that starts there.
C35_ContainingPage ==
    mp_called
    => /\ mp_res # 0 => /\ mp_pages[mp_res].start <= mp_offset
                        /\ mp_offset < mp_pages[mp_res].end
       /\ \A i \in 1..Len(mp_pages) :
            (i > 1 /\ mp_pages[i - 1].end = mp_offset /\ mp_pages[i].start = mp_offset)
            => mp_res = i

\* the value of a run of digits in a radix
RECURSIVE ValueOf(_, _)
ValueOf(s, radix) ==
    IF s = <<>> THEN 0
    ELSE ValueOf(SubSeq(s, 1, Len(s) - 1), radix) * radix + DigitValue[s[Len(s)]]

\* C36: the page parsed from a region line has the two hexadecimal bounds of
\* field 1 as its range, the permissions of field 2, the value of field 3 (the
\* field after the permissions) as its file offset and the type of field 6;
\* fields 4 and 5 (dev and inode) have no part in it.
C36_ParseMapLine ==
    (ml_called /\ ml_res.ok)
    => /\ ml_res.page.start = ValueOf(ml_line[1].from, 16)
       /\ ml_res.page.end = ValueOf(ml_line[1].to, 16)
       /\ ml_res.page.permissions
            = permissions_new(ml_line[2][1] = "r", ml_line[2][2] = "w",
                              ml_line[2][3] = "x", ml_line[2][4] = "s")
       /\ ml_res.page.offset = ValueOf(ml_line[3], 10)
       /\ ml_res.page.page_type
            = CASE ml_line[6] = "[heap]" -> "Heap"
                [] ml_line[6] = "[stack]" -> "Stack"
                [] ml_line[6] = "" -> "Anon"
                [] ml_line[6] = "[vdso]" -> "Unknown"
                [] ml_line[6] = "/bin/target" -> "ProcessExecutable"
                [] OTHER -> "File"

----------------------------------------------------------------------------
\* Failed lock operations

\* C37: when the platform stop fails inside lock() or lock_exlusive(), or
\* the platform continue fails inside unlock(), the call returns a
\* PlatformError and the lock counter has the value it had before the call.
C37_FailedCallKeepsCounter ==
    (lk_op \in {"lock", "lock_exlusive", "unlock"} /\ lk_failed)
    => (lk_res = "PlatformError" /\ lock_counter = lk_pre)

\* the continue failed inside the unlock() of an exclusive lock
C37_Witness ==
    /\ lk_op = "unlock"
    /\ lk_failed
    /\ lk_pre = usize_MAX
    /\ lk_calls = <<"cont">>

----------------------------------------------------------------------------
\* Properties of the ProcessContext

\* C39: ptrace_attach returns true exactly on the call that takes the counter
\* from 0 to 1, which is the call that attaches ptrace; ptrace is attached
\* whenever the counter is positive; ptrace_detach makes the raw detach
\* exactly when it takes the counter back to 0; read_memory and write_memory
\* leave the counter as they found it.
C39_AttachCounter ==
    /\ cx_counter > 0 => cx_attached
    /\ (cx_op = "ptrace_attach" /\ cx_res \in {"OkTrue", "OkFalse"})
         => /\ cx_res = "OkTrue" <=> cx_pre = 0
            /\ cx_raw = <<"attach">> <=> cx_pre = 0
    /\ (cx_op = "ptrace_detach" /\ cx_res \in {"OkTrue", "OkFalse"})
         => (cx_raw = <<"detach">> <=> cx_counter = 0)
    /\ cx_op \in {"read_memory", "write_memory"} => cx_counter = cx_pre

\* C40: for any vector and any accumulate-filter closure, acc_filter_vec_mut
\* leaves the vector equal to what the AccFilter iterator yields over the same
\* items; both yield at most N + 1 items for N inputs; during the in-place pass
\* write_index never exceeds the number of items already read, and the final
\* length is at most N + 1.
C40_InPlaceEqualsLazy ==
    /\ af_pos \in {"loop", "tail"} => af_write <= af_read
    /\ af_pos = "done" => /\ af_write <= af_read + 1
                          /\ af_len <= Len(af_items) + 1
    /\ Len(lz_out) <= Len(af_items) + 1
    /\ (af_pos = "done" /\ lz_done) => SubSeq(af_buf, 1, af_len) = lz_out

\* both have finished on a vector of three items of which the closure dropped
\* some, kept some, and left one in the accumulator
C40_Witness ==
    /\ af_pos = "done"
    /\ lz_done
    /\ Len(af_items) = 3
    /\ Len(lz_out) = 2
    /\ lz_out[2] = af_items[3]
    /\ af_funs[3] = "store"

====
